---- MODULE Spec2Model ----
(***************************************************************************)
(* doctr: diff parser, draft generator and the generate command.           *)
(*                                                                         *)
(* Texts are TLA+ strings; Python's None is the record None, and a value   *)
(* that may be None is wrapped by Some.  Three specifications share the    *)
(* variables: SpecParser (DiffParser._parse_file_diff, one loop iteration  *)
(* per step), SpecDraft (DocumentationGenerator.generate_draft) and        *)
(* SpecRun (the generate command, main.py lines 48-61 and 104-106, with    *)
(* DiffParser.parse_diff inside, one git invocation per step).             *)
(***************************************************************************)
EXTENDS Integers, Sequences, FiniteSets

VARIABLES
    \* DiffParser._parse_file_diff
    file_path, diff_content, lines, idx, line_num, added_lines, removed_lines,
    parse_pc, change,
    \* DocumentationGenerator.generate_draft
    changes, draft_pc, draft,
    \* _generate_docs / DiffParser.parse_diff
    is_repo, run_pc, diffs, file_i, file_diffs, pd_changes, echoed,
    \* DocumentationWriter.write_doc
    doc, filename, fs, fs0, w_pc, w_path, w_meta_i, w_result,
    \* DocumentationWriter.write_changelog
    cl_pc, cl_content, cl_calls,
    \* the generate and setup commands: options, configuration, LLM requests
    command, ai_enabled, use_ai, model, config, api_key,
    llm_queue, llm_in_flight, llm_log, pages, page_i, writes,
    \* load_config: the environment, the two files, the dict being merged
    environ, global_config, project_config, config_data, lc_pc

parserVars == <<file_path, diff_content, lines, idx, line_num, added_lines,
                removed_lines, parse_pc, change>>
draftVars == <<changes, draft_pc, draft>>
runVars == <<is_repo, run_pc, diffs, file_i, file_diffs, pd_changes, echoed>>
writeDocVars == <<doc, filename, fs, fs0, w_pc, w_path, w_meta_i, w_result>>
changelogVars == <<cl_pc, cl_content, cl_calls>>
writerVars == <<writeDocVars, changelogVars>>
commandVars == <<command, ai_enabled, use_ai, model, config, api_key,
                 llm_queue, llm_in_flight, llm_log, pages, page_i, writes>>
configVars == <<environ, global_config, project_config, config_data, lc_pc>>
vars == <<parserVars, draftVars, runVars, writerVars, commandVars, configVars>>

----------------------------------------------------------------------------
(* Bounds *)

MaxLines == 3       \* lines of one file diff
MaxChanges == 3     \* CodeChanges given to generate_draft
MaxNames == 2       \* entries of the name-only diff output
MaxCalls == 3       \* write_changelog calls on one file

----------------------------------------------------------------------------
(* Python values and string methods *)

None == [none |-> TRUE]
Some(v) == [none |-> FALSE, val |-> v]

Min(S) == CHOOSE x \in S : \A y \in S : x <= y
Max(S) == CHOOSE x \in S : \A y \in S : x >= y

Char(s, i) == SubSeq(s, i, i)

StartsWith(s, prefix) ==
    Len(s) >= Len(prefix) /\ SubSeq(s, 1, Len(prefix)) = prefix

Whitespace == {" ", "\n"}

\* not s.strip()
IsBlank(s) == \A i \in 1..Len(s) : Char(s, i) \in Whitespace

\* sep.join(parts)
RECURSIVE Join(_, _)
Join(parts, sep) ==
    IF parts = <<>> THEN ""
    ELSE IF Len(parts) = 1 THEN parts[1]
    ELSE parts[1] \o sep \o Join(Tail(parts), sep)

\* s.split(sep) for a one-character sep: the fields between the separators
RECURSIVE SplitOnFrom(_, _, _, _, _)
SplitOnFrom(s, sep, i, cur, acc) ==
    IF i > Len(s) THEN Append(acc, cur)
    ELSE IF Char(s, i) = sep THEN SplitOnFrom(s, sep, i + 1, "", Append(acc, cur))
    ELSE SplitOnFrom(s, sep, i + 1, cur \o Char(s, i), acc)

SplitOn(s, sep) == SplitOnFrom(s, sep, 1, "", <<>>)

\* s.split(): the maximal runs of non-whitespace characters
RECURSIVE SplitFrom(_, _, _, _)
SplitFrom(s, i, cur, acc) ==
    IF i > Len(s) THEN (IF cur = "" THEN acc ELSE Append(acc, cur))
    ELSE IF Char(s, i) \in Whitespace
         THEN SplitFrom(s, i + 1, "", IF cur = "" THEN acc ELSE Append(acc, cur))
    ELSE SplitFrom(s, i + 1, cur \o Char(s, i), acc)

Split(s) == SplitFrom(s, 1, "", <<>>)

\* s.lstrip('+')
LStripPlus(s) ==
    LET rest == {i \in 1..Len(s) : Char(s, i) # "+"}
    IN  IF rest = {} THEN "" ELSE SubSeq(s, Min(rest), Len(s))

Digits == {"0", "1", "2", "3", "4", "5", "6", "7", "8", "9"}

DigitValue(c) ==
    CASE c = "0" -> 0 [] c = "1" -> 1 [] c = "2" -> 2 [] c = "3" -> 3
      [] c = "4" -> 4 [] c = "5" -> 5 [] c = "6" -> 6 [] c = "7" -> 7
      [] c = "8" -> 8 [] c = "9" -> 9

RECURSIVE DecimalValue(_)
DecimalValue(s) ==
    IF s = "" THEN 0
    ELSE 10 * DecimalValue(SubSeq(s, 1, Len(s) - 1)) + DigitValue(Char(s, Len(s)))

\* int(s) for a token without whitespace or underscores: an optional sign and
\* at least one decimal digit; anything else raises ValueError (ok = FALSE)
PyInt(s) ==
    LET signed == Len(s) >= 1 /\ Char(s, 1) \in {"+", "-"}
        body == IF signed THEN SubSeq(s, 2, Len(s)) ELSE s
        ok == body # "" /\ \A i \in 1..Len(body) : Char(body, i) \in Digits
    IN  [ok |-> ok,
         val |-> IF ~ok THEN 0
                 ELSE IF signed /\ Char(s, 1) = "-" THEN 0 - DecimalValue(body)
                 ELSE DecimalValue(body)]

----------------------------------------------------------------------------
(* Change model (doc_model.py) *)

ChangeTypes == {"added", "modified", "deleted", "renamed"}

CodeChange(fp, ct, ls, le, old, new) ==
    [file_path |-> fp, change_type |-> ct, line_start |-> ls, line_end |-> le,
     old_content |-> old, new_content |-> new,
     function_name |-> None, class_name |-> None, symbol_type |-> None]

----------------------------------------------------------------------------
(* DiffParser._parse_file_diff *)

\* The lines a file diff is made of here: well-formed and malformed hunk
\* headers, file headers, added, removed, context and empty lines.
DiffLines ==
    {"@@ -1,2 +3,4 @@", "@@ -7 +12 @@ def f():", "@@", "@@ -1,2", "@@ -1,2 +x,4 @@",
     "@@ -1,2 -5,3 @@", "--- a/app.py", "+++ b/app.py", "+new", "-old", " ctx", ""}

ParserPaths == {"src/app.py"}

DiffTexts ==
    {Join(ls, "\n") : ls \in UNION {[1..n -> DiffLines] : n \in 1..MaxLines}}

\* lines 50-57: the value of line_num after a line starting with '@@'
HunkLineNum(line, ln) ==
    LET parts == Split(line)
    IN  IF Len(parts) >= 2
        THEN IF Len(parts) < 3 THEN 0                       \* IndexError
             ELSE LET r == PyInt(LStripPlus(SplitOn(parts[3], ",")[1]))
                  IN  IF r.ok THEN r.val ELSE 0             \* ValueError
        ELSE ln

IsHunkHeader(line) == StartsWith(line, "@@")
IsAddedLine(line) ==
    ~IsHunkHeader(line) /\ StartsWith(line, "+") /\ ~StartsWith(line, "+++")
IsRemovedLine(line) ==
    ~IsHunkHeader(line) /\ ~IsAddedLine(line)
    /\ StartsWith(line, "-") /\ ~StartsWith(line, "---")
\* faulty variant: only a line starting with a space moves the counter
IsCountedLine_ContextOnly(line) == StartsWith(line, " ")

IsCountedLine(line) ==
    ~IsHunkHeader(line) /\ ~IsAddedLine(line) /\ ~IsRemovedLine(line)
    /\ ~StartsWith(line, "-")

LineNumbers(recorded) == {recorded[i].ln : i \in 1..Len(recorded)}
Contents(recorded) == [i \in 1..Len(recorded) |-> recorded[i].content]

\* faulty variant: the checks for the other list being empty are dropped
ClassifyChange_OtherListIgnored(added, removed) ==
    IF added # <<>> THEN "added"
    ELSE IF removed # <<>> THEN "deleted"
    ELSE "modified"

\* lines 66-72
ClassifyChange(added, removed) ==
    IF added # <<>> /\ removed = <<>> THEN "added"
    ELSE IF removed # <<>> /\ added = <<>> THEN "deleted"
    ELSE "modified"

\* faulty variant: the minimum is taken over the added lines when there are any
StartLine_AddedOnly(added, removed) ==
    IF added # <<>> THEN Min(LineNumbers(added))
    ELSE IF removed # <<>> THEN Min(LineNumbers(removed))
    ELSE 0

\* line 75
StartLine(added, removed) ==
    IF added # <<>> \/ removed # <<>> THEN Min(LineNumbers(added \o removed)) ELSE 0

\* line 76
EndLine(added, removed) ==
    IF added # <<>> \/ removed # <<>> THEN Max(LineNumbers(added \o removed)) ELSE 0

\* faulty variant: the join is not guarded by "if removed_lines"
OldContent_AlwaysJoined(removed) == Some(Join(Contents(removed), "\n"))

\* line 83
OldContent(removed) ==
    IF removed # <<>> THEN Some(Join(Contents(removed), "\n")) ELSE None

\* line 84
NewContent(added) ==
    IF added # <<>> THEN Some(Join(Contents(added), "\n")) ELSE None

\* lines 66-85
BuildChange(fp, added, removed) ==
    CodeChange(fp, ClassifyChange(added, removed), StartLine(added, removed),
               EndLine(added, removed), OldContent(removed), NewContent(added))

ParserInit ==
    /\ file_path \in ParserPaths
    /\ diff_content \in DiffTexts \cup {"", " \n "}
    /\ lines = <<>>
    /\ idx = 0
    /\ line_num = 0
    /\ added_lines = <<>>
    /\ removed_lines = <<>>
    /\ parse_pc = "start"
    /\ change = None

\* lines 40-47
ParseStart ==
    /\ parse_pc = "start"
    /\ IF IsBlank(diff_content)
       THEN /\ parse_pc' = "returned"
            /\ change' = None
            /\ UNCHANGED <<lines, idx, line_num, added_lines, removed_lines>>
       ELSE /\ parse_pc' = "loop"
            /\ lines' = SplitOn(diff_content, "\n")
            /\ idx' = 1
            /\ line_num' = 0
            /\ added_lines' = <<>>
            /\ removed_lines' = <<>>
            /\ UNCHANGED change
    /\ UNCHANGED <<file_path, diff_content>>
    /\ UNCHANGED <<draftVars, runVars, writerVars, commandVars, configVars>>

AtLine == parse_pc = "loop" /\ idx <= Len(lines)

\* lines 50-57
HunkHeaderLine ==
    /\ AtLine
    /\ IsHunkHeader(lines[idx])
    /\ line_num' = HunkLineNum(lines[idx], line_num)
    /\ idx' = idx + 1
    /\ UNCHANGED <<file_path, diff_content, lines, added_lines, removed_lines,
                   parse_pc, change>>
    /\ UNCHANGED <<draftVars, runVars, writerVars, commandVars, configVars>>

\* lines 58-60
AddedLine ==
    /\ AtLine
    /\ IsAddedLine(lines[idx])
    /\ added_lines' =
         Append(added_lines,
                [ln |-> line_num, content |-> SubSeq(lines[idx], 2, Len(lines[idx]))])
    /\ line_num' = line_num + 1
    /\ idx' = idx + 1
    /\ UNCHANGED <<file_path, diff_content, lines, removed_lines, parse_pc, change>>
    /\ UNCHANGED <<draftVars, runVars, writerVars, commandVars, configVars>>

\* lines 61-62
RemovedLine ==
    /\ AtLine
    /\ IsRemovedLine(lines[idx])
    /\ removed_lines' =
         Append(removed_lines,
                [ln |-> line_num, content |-> SubSeq(lines[idx], 2, Len(lines[idx]))])
    /\ idx' = idx + 1
    /\ UNCHANGED <<file_path, diff_content, lines, line_num, added_lines, parse_pc,
                   change>>
    /\ UNCHANGED <<draftVars, runVars, writerVars, commandVars, configVars>>

\* lines 63-64
CountedLine ==
    /\ AtLine
    /\ IsCountedLine(lines[idx])
    /\ line_num' = line_num + 1
    /\ idx' = idx + 1
    /\ UNCHANGED <<file_path, diff_content, lines, added_lines, removed_lines,
                   parse_pc, change>>
    /\ UNCHANGED <<draftVars, runVars, writerVars, commandVars, configVars>>

\* line 63, condition false: a '---' line falls through every branch
SkippedLine ==
    /\ AtLine
    /\ ~IsHunkHeader(lines[idx]) /\ ~IsAddedLine(lines[idx])
    /\ ~IsRemovedLine(lines[idx]) /\ ~IsCountedLine(lines[idx])
    /\ idx' = idx + 1
    /\ UNCHANGED <<file_path, diff_content, lines, line_num, added_lines,
                   removed_lines, parse_pc, change>>
    /\ UNCHANGED <<draftVars, runVars, writerVars, commandVars, configVars>>

\* lines 66-85
ParseFinish ==
    /\ parse_pc = "loop"
    /\ idx > Len(lines)
    /\ change' = Some(BuildChange(file_path, added_lines, removed_lines))
    /\ parse_pc' = "returned"
    /\ UNCHANGED <<file_path, diff_content, lines, idx, line_num, added_lines,
                   removed_lines>>
    /\ UNCHANGED <<draftVars, runVars, writerVars, commandVars, configVars>>

\* _parse_file_diff as a function of its arguments
RECURSIVE ScanLines(_, _, _, _, _)
ScanLines(ls, i, ln, added, removed) ==
    IF i > Len(ls) THEN [added |-> added, removed |-> removed]
    ELSE LET line == ls[i]
             rec == [ln |-> ln, content |-> SubSeq(line, 2, Len(line))]
         IN  IF IsHunkHeader(line)
             THEN ScanLines(ls, i + 1, HunkLineNum(line, ln), added, removed)
             ELSE IF IsAddedLine(line)
             THEN ScanLines(ls, i + 1, ln + 1, Append(added, rec), removed)
             ELSE IF IsRemovedLine(line)
             THEN ScanLines(ls, i + 1, ln, added, Append(removed, rec))
             ELSE IF IsCountedLine(line)
             THEN ScanLines(ls, i + 1, ln + 1, added, removed)
             ELSE ScanLines(ls, i + 1, ln, added, removed)

\* faulty variant: the blank test of lines 40-41 left out
ParseFileDiff_NoBlankCheck(fp, text) ==
    LET r == ScanLines(SplitOn(text, "\n"), 1, 0, <<>>, <<>>)
    IN  Some(BuildChange(fp, r.added, r.removed))

ParseFileDiff(fp, text) ==
    IF IsBlank(text) THEN None
    ELSE LET r == ScanLines(SplitOn(text, "\n"), 1, 0, <<>>, <<>>)
         IN  Some(BuildChange(fp, r.added, r.removed))

----------------------------------------------------------------------------
(* DocumentationGenerator (generator.py) *)

\* a CodeChange as a caller of generate_draft may build it
Change(fp, ct, fn, cn) ==
    [file_path |-> fp, change_type |-> ct, line_start |-> 1, line_end |-> 5,
     old_content |-> None, new_content |-> None,
     function_name |-> fn, class_name |-> cn, symbol_type |-> None]

ChangePool ==
    {Change("test.py", "added", None, None),
     Change("test.py", "modified", Some("hello"), None),
     Change("src/test.py", "added", None, Some("Greeter")),
     Change("src/test.py", "deleted", None, None),
     Change("file1.py", "added", None, None),
     Change("file1.py", "deleted", Some("f"), Some("C")),
     Change("lib/file1.py", "renamed", Some(""), None),
     Change("file2.py", "modified", None, None),
     Change("file2.py", "renamed", None, None),
     Change("docs/", "modified", None, Some(""))}

ChangeLists == UNION {[1..n -> ChangePool] : n \in 0..MaxChanges}

\* bool(x) of an Optional[str]
Truthy(opt) == ~opt.none /\ opt.val # ""

\* f"{n}" for n >= 0
RECURSIVE DecimalString(_)
DecimalString(n) ==
    LET d == CHOOSE c \in Digits : DigitValue(c) = n % 10
    IN  IF n < 10 THEN d ELSE DecimalString(n \div 10) \o d

\* Path(p).name: the last component, empty and '.' components dropped
PathName(p) ==
    LET comps == SplitOn(p, "/")
        real == {i \in 1..Len(comps) : comps[i] \notin {"", "."}}
    IN  IF real = {} THEN "" ELSE comps[Max(real)]

\* line 23
AffectedFiles(chs) == {chs[i].file_path : i \in 1..Len(chs)}

\* faulty variant: the class symbol is appended before the function symbol
SymbolsOf_ClassFirst(c) ==
    (IF Truthy(c.class_name)
     THEN <<c.file_path \o "::" \o c.class_name.val>> ELSE <<>>)
    \o (IF Truthy(c.function_name)
        THEN <<c.file_path \o "::" \o c.function_name.val>> ELSE <<>>)

\* lines 28-31: what one change appends
SymbolsOf(c) ==
    (IF Truthy(c.function_name)
     THEN <<c.file_path \o "::" \o c.function_name.val>> ELSE <<>>)
    \o (IF Truthy(c.class_name)
        THEN <<c.file_path \o "::" \o c.class_name.val>> ELSE <<>>)

\* lines 24-31
RECURSIVE AffectedSymbols(_)
AffectedSymbols(chs) ==
    IF chs = <<>> THEN <<>>
    ELSE SymbolsOf(Head(chs)) \o AffectedSymbols(Tail(chs))

\* faulty variant: the number of changes decides instead of the number of files
Title_ByChangeCount(chs) ==
    IF Len(chs) = 1
    THEN "Changes to " \o PathName(chs[1].file_path)
    ELSE "Changes across " \o DecimalString(Cardinality(AffectedFiles(chs))) \o " files"

\* lines 34-37
Title(chs) ==
    LET affected_files == AffectedFiles(chs)
    IN  IF Cardinality(affected_files) = 1
        THEN "Changes to " \o PathName(CHOOSE f \in affected_files : TRUE)
        ELSE "Changes across " \o DecimalString(Cardinality(affected_files)) \o " files"

\* lines 57-60: the dict change_counts as its items in insertion order
RECURSIVE ChangeCounts(_)
ChangeCounts(chs) ==
    IF chs = <<>> THEN <<>>
    ELSE LET before == ChangeCounts(SubSeq(chs, 1, Len(chs) - 1))
             ct == chs[Len(chs)].change_type
             at == {i \in 1..Len(before) : before[i].key = ct}
         IN  IF at = {} THEN Append(before, [key |-> ct, count |-> 1])
             ELSE [i \in 1..Len(before) |->
                     IF i \in at THEN [key |-> ct, count |-> before[i].count + 1]
                     ELSE before[i]]

\* faulty variant: no singular form
SummaryPart_AlwaysPlural(item) ==
    DecimalString(item.count) \o " " \o item.key \o " changes"

\* lines 63-67
SummaryPart(item) ==
    IF item.count = 1 THEN "1 " \o item.key \o " change"
    ELSE DecimalString(item.count) \o " " \o item.key \o " changes"

\* lines 55-69
GenerateSummary(chs) ==
    LET change_counts == ChangeCounts(chs)
        summary_parts == [i \in 1..Len(change_counts) |-> SummaryPart(change_counts[i])]
    IN  "This update includes " \o Join(summary_parts, ", ") \o "."

\* faulty variant: any change type at all suggests "New Features"
SuggestSections_AnyType(chs) ==
    LET change_types == {chs[i].change_type : i \in 1..Len(chs)}
    IN  <<"Overview">>
        \o (IF change_types # {} THEN <<"New Features">> ELSE <<>>)
        \o (IF \E i \in 1..Len(chs) : Truthy(chs[i].function_name)
            THEN <<"API Changes">> ELSE <<>>)
        \o <<"Usage Examples", "Migration Guide">>

\* lines 71-86
SuggestSections(chs) ==
    LET change_types == {chs[i].change_type : i \in 1..Len(chs)}
    IN  <<"Overview">>
        \o (IF change_types \cap {"added", "modified"} # {}
            THEN <<"New Features">> ELSE <<>>)
        \o (IF \E i \in 1..Len(chs) : Truthy(chs[i].function_name)
            THEN <<"API Changes">> ELSE <<>>)
        \o <<"Usage Examples", "Migration Guide">>

\* faulty variant: files_changed counts the changes, not the distinct files
Metadata_FilesAsChanges(chs) ==
    [k \in {"files_changed", "total_changes", "change_types"} |->
        CASE k = "files_changed" -> Len(chs)
          [] k = "total_changes" -> Len(chs)
          [] k = "change_types" -> [i \in 1..Len(chs) |-> chs[i].change_type]]

\* faulty variant: the change_types entry is left out
Metadata_NoChangeTypes(chs) ==
    [k \in {"files_changed", "total_changes"} |->
        CASE k = "files_changed" -> Cardinality(AffectedFiles(chs))
          [] k = "total_changes" -> Len(chs)]

\* lines 48-52; a dict is a function on its keys, {} the function on no key
Metadata(chs) ==
    [k \in {"files_changed", "total_changes", "change_types"} |->
        CASE k = "files_changed" -> Cardinality(AffectedFiles(chs))
          [] k = "total_changes" -> Len(chs)
          [] k = "change_types" -> [i \in 1..Len(chs) |-> chs[i].change_type]]

EmptyDict == <<>>

\* faulty variant: the empty input is not told apart
GenerateDraftOf_NoEmptyCase(chs) ==
    [title |-> Title(chs), summary |-> GenerateSummary(chs), changes |-> chs,
     affected_symbols |-> AffectedSymbols(chs),
     suggested_sections |-> SuggestSections(chs), metadata |-> Metadata(chs)]

\* lines 10-53
\* faulty variant: the draft keeps only the changes that have new content
GenerateDraftOf_Filtered(chs) ==
    IF chs = <<>>
    THEN [title |-> "No Changes", summary |-> "No code changes detected.",
          changes |-> <<>>, affected_symbols |-> <<>>, suggested_sections |-> <<>>,
          metadata |-> EmptyDict]
    ELSE [title |-> Title(chs), summary |-> GenerateSummary(chs),
          changes |-> SelectSeq(chs, LAMBDA c : ~c.new_content.none),
          affected_symbols |-> AffectedSymbols(chs),
          suggested_sections |-> SuggestSections(chs), metadata |-> Metadata(chs)]

GenerateDraftOf(chs) ==
    IF chs = <<>>
    THEN [title |-> "No Changes", summary |-> "No code changes detected.",
          changes |-> <<>>, affected_symbols |-> <<>>, suggested_sections |-> <<>>,
          metadata |-> EmptyDict]
    ELSE [title |-> Title(chs), summary |-> GenerateSummary(chs), changes |-> chs,
          affected_symbols |-> AffectedSymbols(chs),
          suggested_sections |-> SuggestSections(chs), metadata |-> Metadata(chs)]

DraftInit ==
    /\ changes \in ChangeLists
    /\ draft_pc = "start"
    /\ draft = None

GenerateDraft ==
    /\ draft_pc = "start"
    /\ draft' = Some(GenerateDraftOf(changes))
    /\ draft_pc' = "returned"
    /\ UNCHANGED <<changes, parserVars, configVars, runVars, writerVars, commandVars>>

----------------------------------------------------------------------------
(* DiffParser.parse_diff and the generate command (_generate_docs) *)

\* what the name-only diff prints, split at '\n'
NamePool == {"", "app.py", "src/util.py"}
NameLists == UNION {[1..n -> NamePool] : n \in 1..MaxNames}

\* what the detailed diff of one file prints
FileDiffs ==
    {"", "@@ -0,0 +1 @@\n+new", "@@ -4,2 +4,2 @@\n ctx\n-old\n+new", "@@ -9 +8,0 @@\n-old"}

RunInit ==
    /\ is_repo \in BOOLEAN
    /\ run_pc = "start"
    /\ diffs = <<>>
    /\ file_i = 0
    /\ file_diffs = <<>>
    /\ pd_changes = <<>>
    /\ echoed = <<>>
    /\ changes = <<>>
    /\ draft_pc = "idle"
    /\ draft = None

\* main.py line 50, DiffParser.__init__: Repo(repo_path) raises for a path
\* that is no repository, inside the try of _generate_docs (lines 104-106)
ConstructParser ==
    /\ command = "generate"
    /\ run_pc = "start"
    /\ IF is_repo
       THEN /\ run_pc' = "list_names"
            /\ UNCHANGED echoed
       ELSE /\ run_pc' = "exit1"
            /\ echoed' = Append(echoed, "Error: not a repository")
    /\ UNCHANGED <<is_repo, file_diffs, diffs, file_i, pd_changes, draftVars, parserVars, configVars, writerVars, commandVars>>

\* parse_diff lines 19-20
ListNames ==
    /\ run_pc = "list_names"
    /\ \E names \in NameLists : diffs' = names
    /\ pd_changes' = <<>>
    /\ file_i' = 1
    /\ file_diffs' = <<>>
    /\ run_pc' = "files"
    /\ UNCHANGED <<is_repo, echoed, draftVars, parserVars, configVars, writerVars, commandVars>>

\* parse_diff line 19 raising, lines 34-36
ListNamesFails ==
    /\ run_pc = "list_names"
    /\ echoed' = Append(echoed, "Error parsing diff")
    /\ changes' = <<>>
    /\ run_pc' = "parsed"
    /\ UNCHANGED <<is_repo, file_diffs, diffs, file_i, pd_changes, draft_pc, draft, parserVars, configVars, writerVars, commandVars>>

AtFile == run_pc = "files" /\ file_i <= Len(diffs)

\* parse_diff lines 23-24
SkipBlankName ==
    /\ AtFile
    /\ IsBlank(diffs[file_i])
    /\ file_i' = file_i + 1
    /\ file_diffs' = Append(file_diffs, None)
    /\ UNCHANGED <<is_repo, run_pc, diffs, pd_changes, echoed, draftVars, parserVars, configVars, writerVars, commandVars>>

\* parse_diff lines 27-30
ParseFile ==
    /\ AtFile
    /\ ~IsBlank(diffs[file_i])
    /\ \E file_diff \in FileDiffs :
         LET c == ParseFileDiff(diffs[file_i], file_diff)
         IN  /\ pd_changes' = IF c = None THEN pd_changes ELSE Append(pd_changes, c.val)
             /\ file_diffs' = Append(file_diffs, Some(file_diff))
    /\ file_i' = file_i + 1
    /\ UNCHANGED <<is_repo, run_pc, diffs, echoed, draftVars, parserVars, configVars, writerVars, commandVars>>

\* faulty variant: a failed fetch returns the changes built so far
FetchFails_KeepsPartial ==
    /\ run_pc = "files" /\ file_i <= Len(diffs)
    /\ ~IsBlank(diffs[file_i])
    /\ echoed' = Append(echoed, "Error parsing diff")
    /\ changes' = pd_changes
    /\ run_pc' = "parsed"
    /\ UNCHANGED <<is_repo, file_diffs, diffs, file_i, pd_changes, draft_pc, draft, parserVars, configVars, writerVars, commandVars>>

\* parse_diff line 27 raising, lines 34-36
FetchFails ==
    /\ AtFile
    /\ ~IsBlank(diffs[file_i])
    /\ echoed' = Append(echoed, "Error parsing diff")
    /\ changes' = <<>>
    /\ run_pc' = "parsed"
    /\ UNCHANGED <<is_repo, file_diffs, diffs, file_i, pd_changes, draft_pc, draft, parserVars, configVars, writerVars, commandVars>>

\* parse_diff line 32
ReturnChanges ==
    /\ run_pc = "files"
    /\ file_i > Len(diffs)
    /\ changes' = pd_changes
    /\ run_pc' = "parsed"
    /\ UNCHANGED <<is_repo, file_diffs, diffs, file_i, pd_changes, echoed, draft_pc, draft,
                   parserVars, configVars, writerVars, commandVars>>

\* faulty variant: the return of line 55 left out
NoChanges_GoesOn ==
    /\ run_pc = "parsed"
    /\ changes = <<>>
    /\ echoed' = Append(echoed, "No changes detected.")
    /\ draft' = Some(GenerateDraftOf(changes))
    /\ run_pc' = "drafted"
    /\ UNCHANGED <<is_repo, file_diffs, diffs, file_i, pd_changes, changes, draft_pc, parserVars, configVars, writerVars, commandVars>>

\* main.py lines 53-55
NoChanges ==
    /\ run_pc = "parsed"
    /\ changes = <<>>
    /\ echoed' = Append(echoed, "No changes detected.")
    /\ run_pc' = "returned"
    /\ UNCHANGED <<is_repo, file_diffs, diffs, file_i, pd_changes, draftVars, parserVars, configVars, writerVars, commandVars>>

\* main.py lines 57-61
FoundChanges ==
    /\ run_pc = "parsed"
    /\ changes # <<>>
    /\ echoed' = Append(echoed, "Found " \o DecimalString(Len(changes)) \o " code changes")
    /\ draft' = Some(GenerateDraftOf(changes))
    /\ run_pc' = "drafted"
    /\ UNCHANGED <<is_repo, file_diffs, diffs, file_i, pd_changes, changes, draft_pc, parserVars, configVars, writerVars, commandVars>>

----------------------------------------------------------------------------
(* DocumentationWriter (writer.py) *)

\* The file system: the set of files, each a path with its content.  Text
\* files are written with '\n' kept as it is (POSIX line separator).
Exists(files, path) == \E f \in files : f.path = path
ReadFile(files, path) == (CHOOSE f \in files : f.path = path).content
WriteFile(files, path, text) ==
    {f \in files : f.path # path} \cup {[path |-> path, content |-> text]}
AppendFile(files, path, text) == WriteFile(files, path, ReadFile(files, path) \o text)

OutputDir == "docs"

\* output_dir / name, for a relative name
PathJoin(dir, name) == dir \o "/" \o name

UpperCase == "ABCDEFGHIJKLMNOPQRSTUVWXYZ"
LowerCase == "abcdefghijklmnopqrstuvwxyz"

IsUpper(c) == \E i \in 1..Len(UpperCase) : Char(UpperCase, i) = c
IsLower(c) == \E i \in 1..Len(LowerCase) : Char(LowerCase, i) = c

\* c.isalnum() for ASCII
IsAlnum(c) == IsUpper(c) \/ IsLower(c) \/ c \in Digits

\* c.lower() for ASCII
LowerChar(c) ==
    IF IsUpper(c)
    THEN Char(LowerCase, CHOOSE i \in 1..Len(UpperCase) : Char(UpperCase, i) = c)
    ELSE c

\* faulty variant: the dot is kept as well
KeepsChar_WithDot(c) == IsAlnum(c) \/ c \in {" ", "-", "_", "."}

\* line 18: c.isalnum() or c in (' ', '-', '_')
KeepsChar(c) == IsAlnum(c) \/ c \in {" ", "-", "_"}

\* line 18: "".join(c for c in title if ...)
RECURSIVE KeepSafe(_)
KeepSafe(s) ==
    IF s = "" THEN ""
    ELSE (IF KeepsChar(Char(s, 1)) THEN Char(s, 1) ELSE "") \o KeepSafe(SubSeq(s, 2, Len(s)))

\* s.rstrip()
RStrip(s) ==
    LET rest == {i \in 1..Len(s) : Char(s, i) \notin Whitespace}
    IN  IF rest = {} THEN "" ELSE SubSeq(s, 1, Max(rest))

\* line 19: s.replace(' ', '_')
RECURSIVE ReplaceSpaces(_)
ReplaceSpaces(s) ==
    IF s = "" THEN ""
    ELSE (IF Char(s, 1) = " " THEN "_" ELSE Char(s, 1)) \o ReplaceSpaces(SubSeq(s, 2, Len(s)))

\* line 19: s.lower()
RECURSIVE Lower(_)
Lower(s) ==
    IF s = "" THEN "" ELSE LowerChar(Char(s, 1)) \o Lower(SubSeq(s, 2, Len(s)))

\* lines 16-20
DefaultFilename(title) == Lower(ReplaceSpaces(RStrip(KeepSafe(title)))) \o ".md"

\* lines 16-22
TargetPath(d, fname) ==
    PathJoin(OutputDir, IF fname = None THEN DefaultFilename(d.title) ELSE fname.val)

\* A metadata value: an int, a str, a bool or a list of str
IntValue(n) == [kind |-> "int", n |-> n, s |-> "", xs |-> <<>>]
StrValue(s) == [kind |-> "str", n |-> 0, s |-> s, xs |-> <<>>]
BoolValue(b) == [kind |-> "bool", n |-> IF b THEN 1 ELSE 0, s |-> "", xs |-> <<>>]
ListValue(xs) == [kind |-> "list", n |-> 0, s |-> "", xs |-> xs]

\* f"{value}" (line 33); a list prints the repr of its strings
PyStr(v) ==
    CASE v.kind = "int" -> DecimalString(v.n)
      [] v.kind = "str" -> v.s
      [] v.kind = "bool" -> IF v.n = 1 THEN "True" ELSE "False"
      [] v.kind = "list" ->
           "[" \o Join([i \in 1..Len(v.xs) |-> "'" \o v.xs[i] \o "'"], ", ") \o "]"

\* a dict: its items in insertion order, the keys distinct
Item(k, v) == [key |-> k, value |-> v]

GeneratedDoc(title, content, metadata) ==
    [title |-> title, content |-> content, format |-> "markdown", file_path |-> None,
     metadata |-> metadata]

Titles == {"Foo Bar", "Changes to test.py", "API: v2 (beta)! ", " a-b_C", "!?"}
Bodies == {"Body text.", "line 1\nline 2\n"}
Metadatas ==
    {None, Some(<<>>),
     Some(<<Item("enhanced", BoolValue(TRUE))>>),
     Some(<<Item("files_changed", IntValue(2)), Item("total_changes", IntValue(12)),
            Item("change_types", ListValue(<<"added", "modified">>))>>)}

DocPool == {GeneratedDoc(t, c, m) : t \in Titles, c \in Bodies, m \in Metadatas}

\* faulty variant: absent metadata only is skipped, an empty dict is written
HasMetadata_NotNone(d) == d.metadata # None

\* line 30: if doc.metadata
HasMetadata(d) == d.metadata # None /\ d.metadata.val # <<>>

\* line 33
MetadataLine(item) == item.key \o ": " \o PyStr(item.value) \o "\n"

\* lines 26-34: everything write_doc writes
FullContent(d) ==
    "# " \o d.title \o "\n\n" \o d.content
    \o (IF HasMetadata(d)
        THEN "\n\n<!-- Metadata:\n"
             \o Join([i \in 1..Len(d.metadata.val) |-> MetadataLine(d.metadata.val[i])], "")
             \o "-->\n"
        ELSE "")

WriteDocInit ==
    /\ doc \in DocPool
    /\ filename \in {None, Some("notes.md")}
    /\ \E old \in {None, Some("old text")} :
          fs = IF old = None THEN {}
               ELSE {[path |-> TargetPath(doc, filename), content |-> old.val]}
    /\ fs0 = fs
    /\ w_pc = "start"
    /\ w_path = ""
    /\ w_meta_i = 0
    /\ w_result = None

\* lines 16-25: the path, and open(file_path, 'w') creating or truncating
OpenFile ==
    /\ w_pc = "start"
    /\ w_path' = TargetPath(doc, filename)
    /\ fs' = WriteFile(fs, TargetPath(doc, filename), "")
    /\ w_pc' = "opened"
    /\ UNCHANGED <<doc, filename, fs0, w_meta_i, w_result>>
    /\ UNCHANGED <<parserVars, configVars, draftVars, runVars, changelogVars, commandVars>>

\* line 25 raising (the directory is gone, no permission)
OpenFails ==
    /\ w_pc = "start"
    /\ w_path' = TargetPath(doc, filename)
    /\ w_pc' = "raised"
    /\ UNCHANGED <<doc, filename, fs, fs0, w_meta_i, w_result>>
    /\ UNCHANGED <<parserVars, configVars, draftVars, runVars, changelogVars, commandVars>>

\* line 26
WriteHeading ==
    /\ w_pc = "opened"
    /\ fs' = AppendFile(fs, w_path, "# " \o doc.title \o "\n\n")
    /\ w_pc' = "heading"
    /\ UNCHANGED <<doc, filename, fs0, w_path, w_meta_i, w_result>>
    /\ UNCHANGED <<parserVars, configVars, draftVars, runVars, changelogVars, commandVars>>

\* line 27
WriteBody ==
    /\ w_pc = "heading"
    /\ fs' = AppendFile(fs, w_path, doc.content)
    /\ w_pc' = "body"
    /\ UNCHANGED <<doc, filename, fs0, w_path, w_meta_i, w_result>>
    /\ UNCHANGED <<parserVars, configVars, draftVars, runVars, changelogVars, commandVars>>

\* lines 30-31
WriteMetadataOpen ==
    /\ w_pc = "body"
    /\ HasMetadata(doc)
    /\ fs' = AppendFile(fs, w_path, "\n\n<!-- Metadata:\n")
    /\ w_meta_i' = 1
    /\ w_pc' = "metadata"
    /\ UNCHANGED <<doc, filename, fs0, w_path, w_result>>
    /\ UNCHANGED <<parserVars, configVars, draftVars, runVars, changelogVars, commandVars>>

\* lines 32-33
WriteMetadataItem ==
    /\ w_pc = "metadata"
    /\ w_meta_i <= Len(doc.metadata.val)
    /\ fs' = AppendFile(fs, w_path, MetadataLine(doc.metadata.val[w_meta_i]))
    /\ w_meta_i' = w_meta_i + 1
    /\ UNCHANGED <<doc, filename, fs0, w_pc, w_path, w_result>>
    /\ UNCHANGED <<parserVars, configVars, draftVars, runVars, changelogVars, commandVars>>

\* line 34
WriteMetadataClose ==
    /\ w_pc = "metadata"
    /\ w_meta_i > Len(doc.metadata.val)
    /\ fs' = AppendFile(fs, w_path, "-->\n")
    /\ w_pc' = "written"
    /\ UNCHANGED <<doc, filename, fs0, w_path, w_meta_i, w_result>>
    /\ UNCHANGED <<parserVars, configVars, draftVars, runVars, changelogVars, commandVars>>

\* the next write exists: line 26, 27, 31, 33 or 34
WritePending ==
    \/ w_pc \in {"opened", "heading", "metadata"}
    \/ w_pc = "body" /\ HasMetadata(doc)

\* a write of lines 26-34 raising (a value that cannot be written or
\* formatted, an I/O error): the with statement closes the file as it is
WriteFails ==
    /\ WritePending
    /\ w_pc' = "raised"
    /\ UNCHANGED <<doc, filename, fs, fs0, w_path, w_meta_i, w_result>>
    /\ UNCHANGED <<parserVars, configVars, draftVars, runVars, changelogVars, commandVars>>

\* line 36
ReturnPath ==
    /\ \/ w_pc = "written"
       \/ w_pc = "body" /\ ~HasMetadata(doc)
    /\ w_result' = Some(w_path)
    /\ w_pc' = "returned"
    /\ UNCHANGED <<doc, filename, fs, fs0, w_path, w_meta_i>>
    /\ UNCHANGED <<parserVars, configVars, draftVars, runVars, changelogVars, commandVars>>

----------------------------------------------------------------------------
(* DocumentationWriter.write_changelog; the callers are the invocations that
   may be in progress at once *)

Callers == {"w1", "w2"}

ChangelogPath == PathJoin(OutputDir, "CHANGELOG.md")

ChangelogContents == {"A", "B", "1.0\r\n- fix", ""}

\* Path.read_text: universal newlines turn '\r\n' and '\r' into '\n'
RECURSIVE UniversalNewlines(_)
UniversalNewlines(s) ==
    IF s = "" THEN ""
    ELSE IF Char(s, 1) = "\r"
         THEN "\n" \o UniversalNewlines(
                         IF Len(s) >= 2 /\ Char(s, 2) = "\n"
                         THEN SubSeq(s, 3, Len(s)) ELSE SubSeq(s, 2, Len(s)))
    ELSE Char(s, 1) \o UniversalNewlines(SubSeq(s, 2, Len(s)))

ReadText(files, path) == UniversalNewlines(ReadFile(files, path))

\* the changelog two interleaving calls find
ExistingChangelog == "0.9"

\* an existing changelog and no call made
ChangelogRaceInit ==
    /\ fs = {[path |-> ChangelogPath, content |-> ExistingChangelog]}
    /\ fs0 = fs
    /\ cl_pc = [p \in Callers |-> "idle"]
    /\ cl_content = [p \in Callers |-> ""]
    /\ cl_calls = <<>>

ChangelogInit ==
    /\ fs = {}
    /\ fs0 = {}
    /\ cl_pc = [p \in Callers |-> "idle"]
    /\ cl_content = [p \in Callers |-> ""]
    /\ cl_calls = <<>>

\* line 38: a call with its content
CallChangelog(p) ==
    /\ cl_pc[p] = "idle"
    /\ Len(cl_calls) < MaxCalls
    /\ \E c \in ChangelogContents :
          /\ cl_content' = [cl_content EXCEPT ![p] = c]
          /\ cl_calls' = Append(cl_calls, c)
    /\ cl_pc' = [cl_pc EXCEPT ![p] = "called"]
    /\ UNCHANGED <<doc, filename, fs, fs0, w_pc, w_path, w_meta_i, w_result>>
    /\ UNCHANGED <<parserVars, configVars, draftVars, runVars, commandVars>>

\* a call made while no other call is in progress
CallChangelogAlone(p) ==
    /\ \A q \in Callers : cl_pc[q] = "idle"
    /\ CallChangelog(p)

\* lines 40-45
ReadExisting(p) ==
    /\ cl_pc[p] = "called"
    /\ cl_content' =
         IF Exists(fs, ChangelogPath)
         THEN [cl_content EXCEPT ![p] = cl_content[p] \o "\n\n" \o ReadText(fs, ChangelogPath)]
         ELSE cl_content
    /\ cl_pc' = [cl_pc EXCEPT ![p] = "combined"]
    /\ UNCHANGED <<doc, filename, fs, fs0, w_pc, w_path, w_meta_i, w_result, cl_calls>>
    /\ UNCHANGED <<parserVars, configVars, draftVars, runVars, commandVars>>

\* faulty variant: the text is added to the file instead of replacing it
WriteChangelog_Appends(p) ==
    /\ cl_pc[p] = "combined"
    /\ fs' = IF Exists(fs, ChangelogPath)
             THEN AppendFile(fs, ChangelogPath, cl_content[p])
             ELSE WriteFile(fs, ChangelogPath, cl_content[p])
    /\ cl_pc' = [cl_pc EXCEPT ![p] = "idle"]
    /\ UNCHANGED <<doc, filename, fs0, w_pc, w_path, w_meta_i, w_result, cl_content,
                   cl_calls>>
    /\ UNCHANGED <<parserVars, configVars, draftVars, runVars, commandVars>>

\* lines 47-48
WriteChangelog(p) ==
    /\ cl_pc[p] = "combined"
    /\ fs' = WriteFile(fs, ChangelogPath, cl_content[p])
    /\ cl_pc' = [cl_pc EXCEPT ![p] = "idle"]
    /\ UNCHANGED <<doc, filename, fs0, w_pc, w_path, w_meta_i, w_result, cl_content,
                   cl_calls>>
    /\ UNCHANGED <<parserVars, configVars, draftVars, runVars, commandVars>>

----------------------------------------------------------------------------
(* The generate command after the draft (main.py lines 63-106) and the setup
   command (_setup_wiki) *)

parseDiffVars == <<is_repo, diffs, file_i, file_diffs, pd_changes>>

Models == {"claude-3-5-haiku-20241022", "gpt-4o", "o1-mini", "gemini-pro"}

\* DoctrConfig as load_config returns it: the two keys
DoctrConfig(openai_key, anthropic_key) ==
    [openai_api_key |-> openai_key, anthropic_api_key |-> anthropic_key]

Configs ==
    {DoctrConfig(None, None), DoctrConfig(Some("sk-oa"), None),
     DoctrConfig(None, Some("")), DoctrConfig(None, Some("sk-ant"))}

\* config.py lines 82-90
GetApiKey(cfg, model_name) ==
    IF StartsWith(model_name, "gpt") \/ StartsWith(model_name, "o1")
    THEN cfg.openai_api_key
    ELSE IF StartsWith(model_name, "claude") THEN cfg.anthropic_api_key
    ELSE cfg.anthropic_api_key

\* faulty variant: the key is taken as present whatever the configuration
HasApiKey_Always(cfg, model_name) == TRUE

\* main.py lines 65-66 and 146-147: api_key = get_api_key(...); not api_key
HasApiKey(cfg, model_name) == Truthy(GetApiKey(cfg, model_name))

\* main.py lines 67-76: the variable the warning names
WarningEnvVar(model_name) ==
    IF StartsWith(model_name, "claude") THEN "ANTHROPIC_API_KEY" ELSE "OPENAI_API_KEY"

\* llm.py lines 28-37: the variable LLMDocumentationGenerator sets to the key
GeneratorEnvVar(model_name) ==
    IF StartsWith(model_name, "gpt") \/ StartsWith(model_name, "o1")
    THEN "OPENAI_API_KEY"
    ELSE IF StartsWith(model_name, "claude") THEN "ANTHROPIC_API_KEY"
    ELSE "ANTHROPIC_API_KEY"

\* llm.py lines 39-45: the model class of the documentation agents
GeneratorModelClass(model_name) ==
    IF StartsWith(model_name, "gpt") \/ StartsWith(model_name, "o1")
    THEN "OpenAIModel"
    ELSE IF StartsWith(model_name, "claude") THEN "AnthropicModel"
    ELSE "AnthropicModel"

\* intelligent_analyzer.py lines 54-59: the model class of the exploration
\* and insight agents
AnalyzerModelClass(model_name) ==
    IF StartsWith(model_name, "gpt") THEN "OpenAIModel" ELSE "AnthropicModel"

MissingKeyWarning(model_name) ==
    "Warning: No API key found for model " \o model_name \o ". Set "
    \o WarningEnvVar(model_name) \o " environment variable or configure in .doctr.toml"

FallbackNotice == "Falling back to basic documentation generation..."

\* one request to the LLM service
Request(kind, arg) == [kind |-> kind, arg |-> arg]

CommandInit ==
    /\ command \in {"generate", "setup"}
    /\ ai_enabled \in BOOLEAN
    /\ use_ai = ai_enabled
    /\ model \in Models
    /\ config \in Configs
    /\ api_key = None
    /\ llm_queue = <<>>
    /\ llm_in_flight = {}
    /\ llm_log = <<>>
    /\ pages = <<>>
    /\ page_i = 0
    /\ writes = 0

\* main.py lines 63-78
CheckApiKey ==
    /\ command = "generate"
    /\ run_pc = "drafted"
    /\ IF use_ai
       THEN /\ api_key' = GetApiKey(config, model)
            /\ IF HasApiKey(config, model)
               THEN UNCHANGED <<echoed, use_ai>>
               ELSE /\ echoed' = echoed \o <<MissingKeyWarning(model), FallbackNotice>>
                    /\ use_ai' = FALSE
       ELSE UNCHANGED <<api_key, echoed, use_ai>>
    /\ run_pc' = "key_checked"
    /\ UNCHANGED <<parseDiffVars, parserVars, configVars, draftVars, writerVars>>
    /\ UNCHANGED <<command, ai_enabled, model, config, llm_queue, llm_in_flight, llm_log,
                   pages, page_i, writes>>

\* main.py lines 80-84 entering enhance_draft (llm.py lines 168-175): the
\* analysis request, then the content request
StartEnhance ==
    /\ command = "generate"
    /\ run_pc = "key_checked"
    /\ use_ai
    /\ echoed' = Append(echoed, "Analyzing changes with AI...")
    /\ llm_queue' = <<Request("analysis", ""), Request("content", "")>>
    /\ run_pc' = "enhancing"
    /\ UNCHANGED <<parseDiffVars, parserVars, configVars, draftVars, writerVars>>
    /\ UNCHANGED <<command, ai_enabled, use_ai, model, config, api_key, llm_in_flight,
                   llm_log, pages, page_i, writes>>

\* faulty variant: the request is issued without awaiting the one before
IssueRequest_NotAwaited ==
    /\ run_pc \in {"enhancing", "generating"}
    /\ llm_queue # <<>>
    /\ llm_in_flight' = llm_in_flight \cup {Head(llm_queue)}
    /\ llm_log' = Append(llm_log, Head(llm_queue))
    /\ llm_queue' = Tail(llm_queue)
    /\ UNCHANGED <<runVars, parserVars, configVars, draftVars, writerVars>>
    /\ UNCHANGED <<command, ai_enabled, use_ai, model, config, api_key, pages, page_i,
                   writes>>

\* an agent.run(prompt) being awaited: llm.py lines 104 and 139,
\* intelligent_analyzer.py lines 114 and 134, ai_wiki_generator.py line 103
\* and its like in each page generator
IssueRequest ==
    /\ run_pc \in {"enhancing", "generating"}
    /\ llm_in_flight = {}
    /\ llm_queue # <<>>
    /\ llm_in_flight' = {Head(llm_queue)}
    /\ llm_log' = Append(llm_log, Head(llm_queue))
    /\ llm_queue' = Tail(llm_queue)
    /\ UNCHANGED <<runVars, parserVars, configVars, draftVars, writerVars>>
    /\ UNCHANGED <<command, ai_enabled, use_ai, model, config, api_key, pages, page_i,
                   writes>>

\* a request of enhance_draft returns its output
EnhanceRequestReturns ==
    /\ run_pc = "enhancing"
    /\ llm_in_flight # {}
    /\ llm_in_flight' = {}
    /\ UNCHANGED <<runVars, parserVars, configVars, draftVars, writerVars>>
    /\ UNCHANGED <<command, ai_enabled, use_ai, model, config, api_key, llm_queue, llm_log,
                   pages, page_i, writes>>

\* an awaited request raises: the exception reaches the handler of the
\* command (main.py lines 104-106, 214-216)
RequestFails ==
    /\ run_pc \in {"enhancing", "generating"}
    /\ llm_in_flight # {}
    /\ llm_in_flight' = {}
    /\ echoed' = Append(echoed, "Error: request failed")
    /\ run_pc' = "exit1"
    /\ UNCHANGED <<parseDiffVars, parserVars, configVars, draftVars, writerVars>>
    /\ UNCHANGED <<command, ai_enabled, use_ai, model, config, api_key, llm_queue, llm_log,
                   pages, page_i, writes>>

\* generator.py lines 48-52 as a dict in insertion order
MetadataItems(md) ==
    IF DOMAIN md = {} THEN <<>>
    ELSE <<Item("files_changed", IntValue(md["files_changed"])),
           Item("total_changes", IntValue(md["total_changes"])),
           Item("change_types", ListValue(md["change_types"]))>>

LLMContents == {"## Overview\n\nAI text."}

\* llm.py lines 177-185 (main.py line 84)
EnhanceDone ==
    /\ run_pc = "enhancing"
    /\ llm_queue = <<>>
    /\ llm_in_flight = {}
    /\ \E enhanced_content \in LLMContents :
          doc' = GeneratedDoc(draft.val.title, enhanced_content,
                              Some(MetadataItems(draft.val.metadata)
                                   \o <<Item("llm_analysis", StrValue("{}")),
                                        Item("enhanced", BoolValue(TRUE))>>))
    /\ run_pc' = "rendered"
    /\ UNCHANGED <<parseDiffVars, echoed, parserVars, configVars, draftVars, changelogVars, commandVars>>
    /\ UNCHANGED <<filename, fs, fs0, w_pc, w_path, w_meta_i, w_result>>

PreviewLength == 200

\* main.py line 93: the code fence, three grave accents in the source; a
\* string of this language cannot hold that character, so tildes stand for it
Fence == "~~~"

\* main.py lines 91-93
ChangeEntry(c) ==
    "- **" \o c.file_path \o "**: " \o c.change_type \o "\n"
    \o (IF Truthy(c.new_content)
        THEN "  " \o Fence \o "\n  "
             \o SubSeq(c.new_content.val, 1, Min({PreviewLength, Len(c.new_content.val)}))
             \o "...\n  " \o Fence \o "\n"
        ELSE "")

\* main.py lines 87-93
BasicContent(d) ==
    d.summary \o "\n\n" \o "## Changes\n\n"
    \o Join([i \in 1..Len(d.changes) |-> ChangeEntry(d.changes[i])], "")

\* main.py lines 85-97
BasicRender ==
    /\ command = "generate"
    /\ run_pc = "key_checked"
    /\ ~use_ai
    /\ doc' = GeneratedDoc(draft.val.title, BasicContent(draft.val),
                           Some(MetadataItems(draft.val.metadata)))
    /\ run_pc' = "rendered"
    /\ UNCHANGED <<parseDiffVars, echoed, parserVars, configVars, draftVars, changelogVars, commandVars>>
    /\ UNCHANGED <<filename, fs, fs0, w_pc, w_path, w_meta_i, w_result>>

\* main.py lines 100-101: the writer is constructed (writer.py lines 10-12)
\* and write_doc is called with the document and no filename
CallWriteDoc ==
    /\ command = "generate"
    /\ run_pc = "rendered"
    /\ filename' = None
    /\ fs0' = fs
    /\ w_pc' = "start"
    /\ w_path' = ""
    /\ w_meta_i' = 0
    /\ w_result' = None
    /\ writes' = writes + 1
    /\ run_pc' = "writing"
    /\ UNCHANGED <<parseDiffVars, echoed, parserVars, configVars, draftVars, changelogVars, doc, fs>>
    /\ UNCHANGED <<command, ai_enabled, use_ai, model, config, api_key, llm_queue,
                   llm_in_flight, llm_log, pages, page_i>>

\* main.py line 100 raising: the output directory cannot be created
WriterFails ==
    /\ command = "generate"
    /\ run_pc = "rendered"
    /\ echoed' = Append(echoed, "Error: cannot create output directory")
    /\ run_pc' = "exit1"
    /\ UNCHANGED <<parseDiffVars, parserVars, configVars, draftVars, writerVars, commandVars>>

\* main.py line 102
WriteDone ==
    /\ command = "generate"
    /\ run_pc = "writing"
    /\ w_pc = "returned"
    /\ echoed' = Append(echoed, "Documentation written to: " \o w_result.val)
    /\ run_pc' = "returned"
    /\ UNCHANGED <<parseDiffVars, parserVars, configVars, draftVars, writerVars, commandVars>>

\* write_doc raising, main.py lines 104-106
WriteRaised ==
    /\ command = "generate"
    /\ run_pc = "writing"
    /\ w_pc = "raised"
    /\ echoed' = Append(echoed, "Error: write failed")
    /\ run_pc' = "exit1"
    /\ UNCHANGED <<parseDiffVars, parserVars, configVars, draftVars, writerVars, commandVars>>

\* main.py lines 137-143; typer.Exit is a RuntimeError, so the handler of
\* lines 214-216 reports it and exits with status 1 again
SetupWithoutAI ==
    /\ command = "setup"
    /\ run_pc = "start"
    /\ ~use_ai
    /\ echoed' = echoed \o <<"Non-AI mode not yet implemented. Please use --ai for full functionality.",
                             "Error: 1">>
    /\ run_pc' = "exit1"
    /\ UNCHANGED <<parseDiffVars, parserVars, configVars, draftVars, writerVars, commandVars>>

\* main.py lines 146-167 and 214-216
SetupWithoutKey ==
    /\ command = "setup"
    /\ run_pc = "start"
    /\ use_ai
    /\ ~HasApiKey(config, model)
    /\ api_key' = GetApiKey(config, model)
    /\ echoed' = echoed \o <<"No API key found for model " \o model \o ".",
                             "   Set " \o WarningEnvVar(model)
                                \o " environment variable or configure in .doctr.toml",
                             "Error: 1">>
    /\ run_pc' = "exit1"
    /\ UNCHANGED <<parseDiffVars, parserVars, configVars, draftVars, writerVars>>
    /\ UNCHANGED <<command, ai_enabled, use_ai, model, config, llm_queue, llm_in_flight,
                   llm_log, pages, page_i, writes>>

\* main.py lines 146-173 entering generate_comprehensive_wiki
\* (ai_wiki_generator.py lines 30-38)
SetupStart ==
    /\ command = "setup"
    /\ run_pc = "start"
    /\ use_ai
    /\ HasApiKey(config, model)
    /\ api_key' = GetApiKey(config, model)
    /\ echoed' = Append(echoed, "Starting AI-powered documentation generation...")
    /\ llm_queue' = <<Request("exploration_plan", "")>>
    /\ run_pc' = "generating"
    /\ UNCHANGED <<parseDiffVars, parserVars, configVars, draftVars, writerVars>>
    /\ UNCHANGED <<command, ai_enabled, use_ai, model, config, llm_in_flight, llm_log,
                   pages, page_i, writes>>

\* s.replace(a, b) for one-character a
RECURSIVE ReplaceChar(_, _, _)
ReplaceChar(s, a, b) ==
    IF s = "" THEN ""
    ELSE (IF Char(s, 1) = a THEN b ELSE Char(s, 1)) \o ReplaceChar(SubSeq(s, 2, Len(s)), a, b)

\* ExplorationPlan.core_modules, each with whether a project file matches
\* it (ai_wiki_generator.py lines 237-240)
ModulePlans ==
    {<<>>, <<[name |-> "doctr/core", has_files |-> TRUE]>>,
     <<[name |-> "tests", has_files |-> FALSE]>>}

\* ExplorationPlan.documentation_structure
DocPlans == {<<>>, <<"Home", "API", "User Guide">>}

FixedPages == {"home", "installation", "quickstart", "architecture", "api"}

\* ai_wiki_generator.py lines 42-69: the requests that follow the plan
RequestsAfterPlan(modules, doc_types) ==
    <<Request("project_insights", ""), Request("home", ""), Request("installation", ""),
      Request("quickstart", ""), Request("architecture", "")>>
    \o SelectSeq([i \in 1..Len(modules) |-> Request("module_api", modules[i].name)],
                 LAMBDA r : \E i \in 1..Len(modules) :
                               modules[i].name = r.arg /\ modules[i].has_files)
    \o SelectSeq([i \in 1..Len(doc_types) |-> Request("additional", doc_types[i])],
                 LAMBDA r : Lower(r.arg) \notin FixedPages)

\* intelligent_analyzer.py lines 114-115: the plan arrives
PlanReturns ==
    /\ run_pc = "generating"
    /\ llm_in_flight = {Request("exploration_plan", "")}
    /\ llm_in_flight' = {}
    /\ \E modules \in ModulePlans, doc_types \in DocPlans :
          llm_queue' = RequestsAfterPlan(modules, doc_types)
    /\ UNCHANGED <<runVars, parserVars, configVars, draftVars, writerVars>>
    /\ UNCHANGED <<command, ai_enabled, use_ai, model, config, api_key, llm_log, pages,
                   page_i, writes>>

\* intelligent_analyzer.py lines 134-135
InsightsReturn ==
    /\ run_pc = "generating"
    /\ llm_in_flight = {Request("project_insights", "")}
    /\ llm_in_flight' = {}
    /\ UNCHANGED <<runVars, parserVars, configVars, draftVars, writerVars>>
    /\ UNCHANGED <<command, ai_enabled, use_ai, model, config, api_key, llm_queue, llm_log,
                   pages, page_i, writes>>

WikiPage(title, fname, content, category) ==
    [title |-> title, filename |-> fname, content |-> content, category |-> category]

\* ai_wiki_generator.py lines 105-110, 145-150, 185-190, 226-231, 274-279,
\* 302-307
PageOf(r, content) ==
    CASE r.kind = "home" -> WikiPage("Home", "Home.md", content, "overview")
      [] r.kind = "installation" ->
           WikiPage("Installation Guide", "Installation.md", content, "guide")
      [] r.kind = "quickstart" -> WikiPage("Quick Start", "Quick-Start.md", content, "guide")
      [] r.kind = "architecture" ->
           WikiPage("Architecture", "Architecture.md", content, "reference")
      [] r.kind = "module_api" ->
           WikiPage(r.arg \o " API", ReplaceChar(r.arg, "/", "-") \o "-API.md", content, "api")
      [] r.kind = "additional" ->
           WikiPage(r.arg, ReplaceChar(r.arg, " ", "-") \o ".md", content, "guide")

PageKinds == {"home", "installation", "quickstart", "architecture", "module_api", "additional"}

\* a page generator's request returns and the page is appended
\* (ai_wiki_generator.py lines 53-69)
PageReturns ==
    /\ run_pc = "generating"
    /\ \E r \in llm_in_flight :
          /\ r.kind \in PageKinds
          /\ \E content \in LLMContents : pages' = Append(pages, PageOf(r, content))
    /\ llm_in_flight' = {}
    /\ UNCHANGED <<runVars, parserVars, configVars, draftVars, writerVars>>
    /\ UNCHANGED <<command, ai_enabled, use_ai, model, config, api_key, llm_queue, llm_log,
                   page_i, writes>>

WikiDir == "wiki"

\* ai_wiki_generator.py line 71, main.py lines 173-179
WikiGenerated ==
    /\ run_pc = "generating"
    /\ llm_queue = <<>>
    /\ llm_in_flight = {}
    /\ llm_log # <<>>
    /\ echoed' = Append(echoed, "Writing " \o DecimalString(Len(pages))
                                \o " documentation pages...")
    /\ page_i' = 1
    /\ run_pc' = "writing_pages"
    /\ UNCHANGED <<parseDiffVars, parserVars, configVars, draftVars, writerVars>>
    /\ UNCHANGED <<command, ai_enabled, use_ai, model, config, api_key, llm_queue,
                   llm_in_flight, llm_log, pages, writes>>

\* main.py lines 180-184
WritePage ==
    /\ run_pc = "writing_pages"
    /\ page_i <= Len(pages)
    /\ fs' = WriteFile(fs, PathJoin(WikiDir, pages[page_i].filename), pages[page_i].content)
    /\ page_i' = page_i + 1
    /\ UNCHANGED <<runVars, parserVars, configVars, draftVars, changelogVars>>
    /\ UNCHANGED <<doc, filename, fs0, w_pc, w_path, w_meta_i, w_result>>
    /\ UNCHANGED <<command, ai_enabled, use_ai, model, config, api_key, llm_queue,
                   llm_in_flight, llm_log, pages, writes>>

\* main.py lines 176-204 raising, lines 214-216
WritePageFails ==
    /\ run_pc = "writing_pages"
    /\ echoed' = Append(echoed, "Error: write failed")
    /\ run_pc' = "exit1"
    /\ UNCHANGED <<parseDiffVars, parserVars, configVars, draftVars, writerVars, commandVars>>

\* the categories of the pages in the order first met (main.py lines 190-194)
RECURSIVE Categories(_)
Categories(ps) ==
    IF ps = <<>> THEN <<>>
    ELSE LET before == Categories(SubSeq(ps, 1, Len(ps) - 1))
             cat == ps[Len(ps)].category
         IN  IF \E i \in 1..Len(before) : before[i] = cat THEN before
             ELSE Append(before, cat)

\* str.title() of a lower-case word
TitleCase(w) ==
    IF w = "" THEN ""
    ELSE LET at == {i \in 1..Len(LowerCase) : Char(LowerCase, i) = Char(w, 1)}
         IN  (IF at = {} THEN Char(w, 1) ELSE Char(UpperCase, CHOOSE i \in at : TRUE))
             \o SubSeq(w, 2, Len(w))

\* main.py lines 196-200
NavSection(ps, cat) ==
    "## " \o TitleCase(cat) \o "\n\n"
    \o Join(SelectSeq([i \in 1..Len(ps) |->
                         IF ps[i].category = cat
                         THEN "- [" \o ps[i].title \o "](" \o ps[i].filename \o ")\n"
                         ELSE ""],
                      LAMBDA x : x # ""), "")
    \o "\n"

\* main.py lines 187-200
NavContent(ps) ==
    "# Documentation Index\n\n"
    \o Join([k \in 1..Len(Categories(ps)) |-> NavSection(ps, Categories(ps)[k])], "")

\* main.py lines 202-212
WriteNavigation ==
    /\ run_pc = "writing_pages"
    /\ page_i > Len(pages)
    /\ fs' = WriteFile(fs, PathJoin(WikiDir, "_Navigation.md"), NavContent(pages))
    /\ echoed' = Append(echoed, "AI-powered wiki documentation created successfully!")
    /\ run_pc' = "returned"
    /\ UNCHANGED <<parseDiffVars, parserVars, configVars, draftVars, changelogVars, commandVars>>
    /\ UNCHANGED <<doc, filename, fs0, w_pc, w_path, w_meta_i, w_result>>

----------------------------------------------------------------------------
(* load_config (config.py lines 33-55) *)

\* the fields of DoctrConfig that are followed
ConfigKeys == {"openai_api_key", "anthropic_api_key", "default_model", "use_ai"}

\* config.py lines 12-19
ConfigDefault(k) ==
    CASE k = "openai_api_key" -> None
      [] k = "anthropic_api_key" -> None
      [] k = "default_model" -> "claude-3-5-haiku-20241022"
      [] k = "use_ai" -> TRUE

\* the value the file of a layer gives a key it sets
LayerValue(layer, k) ==
    CASE k = "openai_api_key" -> Some(layer \o "-openai")
      [] k = "anthropic_api_key" -> Some(layer \o "-anthropic")
      [] k = "default_model" -> IF layer = "global" THEN "gpt-4o" ELSE "o1-mini"
      [] k = "use_ai" -> layer = "global"

\* what toml.load gives for a file of a layer: the keys it sets
ConfigFiles(layer) == {[k \in keys |-> LayerValue(layer, k)] : keys \in SUBSET ConfigKeys}

\* os.environ: a variable is unset (None), empty or set
Environments ==
    [{"OPENAI_API_KEY", "ANTHROPIC_API_KEY"} -> {None, Some(""), Some("env-key")}]

\* faulty variant: a key already present is kept
UpdateDict_KeepsExisting(d, other) ==
    [k \in (DOMAIN d) \cup (DOMAIN other) |-> IF k \in DOMAIN d THEN d[k] ELSE other[k]]

\* dict.update (lines 47 and 53)
UpdateDict(d, other) ==
    [k \in (DOMAIN d) \cup (DOMAIN other) |-> IF k \in DOMAIN other THEN other[k] ELSE d[k]]

\* d[k] = v (lines 39 and 41)
SetItem(d, k, v) == UpdateDict(d, [x \in {k} |-> v])

LoadConfigInit ==
    /\ environ \in Environments
    /\ global_config \in {None} \cup {Some(f) : f \in ConfigFiles("global")}
    /\ project_config \in {None} \cup {Some(f) : f \in ConfigFiles("project")}
    /\ config_data = <<>>
    /\ lc_pc = "start"
    /\ config = None

\* lines 35-41
LoadEnvironment ==
    /\ lc_pc = "start"
    /\ LET with_anthropic ==
             IF Truthy(environ["ANTHROPIC_API_KEY"])
             THEN SetItem(<<>>, "anthropic_api_key", environ["ANTHROPIC_API_KEY"])
             ELSE <<>>
       IN  config_data' =
             IF Truthy(environ["OPENAI_API_KEY"])
             THEN SetItem(with_anthropic, "openai_api_key", environ["OPENAI_API_KEY"])
             ELSE with_anthropic
    /\ lc_pc' = "global"
    /\ UNCHANGED <<environ, global_config, project_config>>
    /\ UNCHANGED <<parserVars, draftVars, runVars, writerVars, commandVars>>

\* lines 44-47
LoadGlobal ==
    /\ lc_pc = "global"
    /\ config_data' = IF global_config # None
                      THEN UpdateDict(config_data, global_config.val)
                      ELSE config_data
    /\ lc_pc' = "project"
    /\ UNCHANGED <<environ, global_config, project_config>>
    /\ UNCHANGED <<parserVars, draftVars, runVars, writerVars, commandVars>>

\* lines 50-53
LoadProject ==
    /\ lc_pc = "project"
    /\ config_data' = IF project_config # None
                      THEN UpdateDict(config_data, project_config.val)
                      ELSE config_data
    /\ lc_pc' = "merged"
    /\ UNCHANGED <<environ, global_config, project_config>>
    /\ UNCHANGED <<parserVars, draftVars, runVars, writerVars, commandVars>>

\* line 55: DoctrConfig(**config_data), a field not given takes its default
BuildConfig ==
    /\ lc_pc = "merged"
    /\ config' = [k \in ConfigKeys |->
                    IF k \in DOMAIN config_data THEN config_data[k] ELSE ConfigDefault(k)]
    /\ lc_pc' = "returned"
    /\ UNCHANGED <<environ, global_config, project_config, config_data>>
    /\ UNCHANGED <<parserVars, draftVars, runVars, writerVars>>
    /\ UNCHANGED <<command, ai_enabled, use_ai, model, api_key, llm_queue, llm_in_flight,
                   llm_log, pages, page_i, writes>>

----------------------------------------------------------------------------
(* Specifications *)

ParserIdle ==
    /\ file_path = ""
    /\ diff_content = ""
    /\ lines = <<>>
    /\ idx = 0
    /\ line_num = 0
    /\ added_lines = <<>>
    /\ removed_lines = <<>>
    /\ parse_pc = "idle"
    /\ change = None

DraftIdle ==
    /\ changes = <<>>
    /\ draft_pc = "idle"
    /\ draft = None

RunIdle ==
    /\ is_repo = TRUE
    /\ run_pc = "idle"
    /\ diffs = <<>>
    /\ file_i = 0
    /\ file_diffs = <<>>
    /\ pd_changes = <<>>
    /\ echoed = <<>>

WriteDocIdle ==
    /\ doc = None
    /\ filename = None
    /\ w_pc = "idle"
    /\ w_path = ""
    /\ w_meta_i = 0
    /\ w_result = None

FilesIdle == fs = {} /\ fs0 = {}

ChangelogIdle ==
    /\ cl_pc = [p \in Callers |-> "idle"]
    /\ cl_content = [p \in Callers |-> ""]
    /\ cl_calls = <<>>

WriterIdle == WriteDocIdle /\ FilesIdle /\ ChangelogIdle

ConfigIdle ==
    /\ environ = <<>>
    /\ global_config = None
    /\ project_config = None
    /\ config_data = <<>>
    /\ lc_pc = "idle"

CommandIdle ==
    /\ command = "none"
    /\ ai_enabled = FALSE
    /\ use_ai = FALSE
    /\ model = ""
    /\ config = DoctrConfig(None, None)
    /\ api_key = None
    /\ llm_queue = <<>>
    /\ llm_in_flight = {}
    /\ llm_log = <<>>
    /\ pages = <<>>
    /\ page_i = 0
    /\ writes = 0

ParserNext ==
    \/ ParseStart
    \/ HunkHeaderLine
    \/ AddedLine
    \/ RemovedLine
    \/ CountedLine
    \/ SkippedLine
    \/ ParseFinish

InitParser == ParserInit /\ DraftIdle /\ RunIdle /\ WriterIdle /\ CommandIdle /\ ConfigIdle

SpecParser == InitParser /\ [][ParserNext]_vars

DraftNext == GenerateDraft

InitDraft == DraftInit /\ ParserIdle /\ RunIdle /\ WriterIdle /\ CommandIdle /\ ConfigIdle

SpecDraft == InitDraft /\ [][DraftNext]_vars

WriteDocNext ==
    \/ OpenFile
    \/ OpenFails
    \/ WriteHeading
    \/ WriteBody
    \/ WriteMetadataOpen
    \/ WriteMetadataItem
    \/ WriteMetadataClose
    \/ WriteFails
    \/ ReturnPath

InitWriteDoc == WriteDocInit /\ ParserIdle /\ DraftIdle /\ RunIdle /\ ChangelogIdle /\ CommandIdle /\ ConfigIdle

SpecWriteDoc == InitWriteDoc /\ [][WriteDocNext]_vars

\* write_changelog called again only after the call before has returned
ChangelogNext ==
    \/ \E p \in Callers : CallChangelogAlone(p)
    \/ \E p \in Callers : ReadExisting(p)
    \/ \E p \in Callers : WriteChangelog(p)

InitChangelog == ChangelogInit /\ ParserIdle /\ DraftIdle /\ RunIdle /\ WriteDocIdle /\ CommandIdle /\ ConfigIdle

SpecChangelog == InitChangelog /\ [][ChangelogNext]_vars

\* write_changelog calls that may interleave: nothing orders the steps of
\* one call against the steps of another
ChangelogRaceNext ==
    \/ \E p \in Callers : CallChangelog(p)
    \/ \E p \in Callers : ReadExisting(p)
    \/ \E p \in Callers : WriteChangelog(p)

InitChangelogRace ==
    /\ ChangelogRaceInit
    /\ ParserIdle /\ DraftIdle /\ RunIdle /\ WriteDocIdle /\ CommandIdle /\ ConfigIdle

SpecChangelogRace == InitChangelogRace /\ [][ChangelogRaceNext]_vars

LoadConfigNext ==
    \/ LoadEnvironment
    \/ LoadGlobal
    \/ LoadProject
    \/ BuildConfig

InitLoadConfig ==
    /\ LoadConfigInit
    /\ ParserIdle /\ DraftIdle /\ RunIdle /\ WriterIdle
    /\ command = "none" /\ ai_enabled = FALSE /\ use_ai = FALSE /\ model = ""
    /\ api_key = None /\ llm_queue = <<>> /\ llm_in_flight = {} /\ llm_log = <<>>
    /\ pages = <<>> /\ page_i = 0 /\ writes = 0

SpecLoadConfig == InitLoadConfig /\ [][LoadConfigNext]_vars

RunNext ==
    \/ ConstructParser
    \/ ListNames
    \/ ListNamesFails
    \/ SkipBlankName
    \/ ParseFile
    \/ FetchFails
    \/ ReturnChanges
    \/ NoChanges
    \/ FoundChanges
    \/ CheckApiKey
    \/ StartEnhance
    \/ IssueRequest
    \/ EnhanceRequestReturns
    \/ RequestFails
    \/ EnhanceDone
    \/ BasicRender
    \/ CallWriteDoc
    \/ WriterFails
    \/ WriteDocNext
    \/ WriteDone
    \/ WriteRaised
    \/ SetupWithoutAI
    \/ SetupWithoutKey
    \/ SetupStart
    \/ PlanReturns
    \/ InsightsReturn
    \/ PageReturns
    \/ WikiGenerated
    \/ WritePage
    \/ WritePageFails
    \/ WriteNavigation

InitRun ==
    /\ RunInit
    /\ CommandInit
    /\ command = "setup" => is_repo
    /\ ParserIdle
    /\ WriterIdle
    /\ ConfigIdle

SpecRun == InitRun /\ [][RunNext]_vars

----------------------------------------------------------------------------
(* Properties of DiffParser._parse_file_diff, under SpecParser *)

Parsed == parse_pc = "returned" /\ change # None

\* C1: for every diff text that is not blank, change_type is Added exactly when
\* at least one added line and no removed line was recorded, Deleted exactly
\* when at least one removed line and no added line was recorded, and Modified
\* in every other case (both present, or neither).
C1_Classification ==
    Parsed =>
        LET ct == change.val.change_type
            anyAdded == Len(added_lines) > 0
            anyRemoved == Len(removed_lines) > 0
        IN  /\ ct = "added" <=> (anyAdded /\ ~anyRemoved)
            /\ ct = "deleted" <=> (anyRemoved /\ ~anyAdded)
            /\ ct = "modified" <=> (anyAdded <=> anyRemoved)

\* a diff with hunk headers only records nothing and is classified Modified
C1_Witness ==
    /\ Parsed
    /\ Len(added_lines) = 0 /\ Len(removed_lines) = 0
    /\ \E i \in 1..Len(lines) : IsHunkHeader(lines[i])
    /\ change.val.change_type = "modified"

\* C2: every CodeChange the parser produces has old_content None when its
\* change_type is Added, and new_content None when it is Deleted.
C2_ContentOfAddedDeleted ==
    Parsed =>
        /\ change.val.change_type = "added" => change.val.old_content = None
        /\ change.val.change_type = "deleted" => change.val.new_content = None

C2_Witness ==
    /\ Parsed
    /\ change.val.change_type = "added"
    /\ change.val.old_content = None
    /\ change.val.new_content = Some("new\nnew")

\* C3: for every diff text, malformed hunk headers included, the CodeChange has
\* line_start >= 0 and line_end >= 0.
C3_LinesNonNegative ==
    Parsed => change.val.line_start >= 0 /\ change.val.line_end >= 0

\* C4: line_start is the minimum and line_end the maximum of the line numbers
\* recorded for added and removed lines together (so line_start <= line_end),
\* and both are 0 when no line was recorded.
C4_LineRange ==
    Parsed =>
        LET nums == LineNumbers(added_lines) \cup LineNumbers(removed_lines)
            c == change.val
        IN  IF nums = {}
            THEN c.line_start = 0 /\ c.line_end = 0
            ELSE /\ c.line_start \in nums /\ \A n \in nums : c.line_start <= n
                 /\ c.line_end \in nums /\ \A n \in nums : n <= c.line_end
                 /\ c.line_start <= c.line_end

\* a removed line numbered below every added line
C4_Witness ==
    /\ Parsed
    /\ Len(added_lines) > 0 /\ Len(removed_lines) > 0
    /\ \A i \in 1..Len(added_lines) : removed_lines[1].ln < added_lines[i].ln
    /\ change.val.line_start = removed_lines[1].ln
    /\ change.val.line_start < change.val.line_end

\* the new-file starting line number cannot be parsed from a '@@' line: the
\* field is missing (a bare '@@' included) or is not a number
Unparseable(line) ==
    LET parts == Split(line)
    IN  \/ Len(parts) < 3
        \/ ~PyInt(LStripPlus(SplitOn(parts[3], ",")[1])).ok

\* C5: after a line starting with '@@' from which the new-file starting line
\* cannot be parsed, the line counter is 0, whatever it was before, and the
\* parser goes on with the next line.
C5_UnparseableHeaderResets ==
    [][(AtLine /\ IsHunkHeader(lines[idx]) /\ Unparseable(lines[idx]))
          => (line_num' = 0 /\ parse_pc' = "loop" /\ idx' = idx + 1)]_vars

----------------------------------------------------------------------------
(* Properties of parse_diff and the generate command, under SpecRun *)

Member(x, seq) == \E i \in 1..Len(seq) : seq[i] = x

\* C6: parse_diff never propagates an exception: when the name listing or the
\* diff of any one file fails, it returns the empty sequence, dropping the
\* CodeChanges built for earlier files, and the command goes on.
C6_FailureGivesEmpty ==
    /\ (run_pc = "parsed" /\ Member("Error parsing diff", echoed)) => changes = <<>>
    /\ Member("Error parsing diff", echoed) => run_pc \in {"parsed", "returned"}

\* a fetch failed after a CodeChange had been built for an earlier file
C6_Witness ==
    /\ run_pc = "parsed"
    /\ Member("Error parsing diff", echoed)
    /\ Len(pd_changes) > 0
    /\ changes = <<>>

\* C7: when the given path is not a repository, the Diff Parser recovers into
\* an empty change sequence and the generate run reports no changes instead of
\* ending in a fatal error.
C7_NotARepositoryRecovers ==
    (~is_repo /\ run_pc # "start") =>
        /\ run_pc # "exit1"
        /\ changes = <<>>
        /\ (run_pc = "returned" => echoed[Len(echoed)] = "No changes detected.")

----------------------------------------------------------------------------
(* Properties of generate_draft, under SpecDraft *)

Drafted == draft_pc = "returned"

\* C8: for the empty sequence of changes the draft has title "No Changes",
\* summary "No code changes detected.", no changes, no affected symbols, no
\* suggested sections and an empty metadata mapping.
C8_EmptyDraft ==
    (Drafted /\ Len(changes) = 0) =>
        /\ draft # None
        /\ draft.val.title = "No Changes"
        /\ draft.val.summary = "No code changes detected."
        /\ Len(draft.val.changes) = 0
        /\ Len(draft.val.affected_symbols) = 0
        /\ Len(draft.val.suggested_sections) = 0
        /\ DOMAIN draft.val.metadata = {}

C8_Witness == Drafted /\ Len(changes) = 0 /\ draft.val.title = "No Changes"

\* C9: for a non-empty sequence of changes the title is "Changes to <basename>"
\* when all changes share one file_path, however many changes there are, and
\* "Changes across <n> files", n >= 2 the number of distinct file_paths,
\* otherwise.
C9_Title ==
    (Drafted /\ Len(changes) > 0) =>
        LET n == Cardinality({changes[i].file_path : i \in 1..Len(changes)})
        IN  IF \A i \in 1..Len(changes) : changes[i].file_path = changes[1].file_path
            THEN draft.val.title = "Changes to " \o PathName(changes[1].file_path)
            ELSE /\ n >= 2
                 /\ draft.val.title = "Changes across " \o DecimalString(n) \o " files"

\* several changes to one file in a directory
C9_Witness ==
    /\ Drafted
    /\ Len(changes) >= 2
    /\ \A i \in 1..Len(changes) : changes[i].file_path = "src/test.py"
    /\ draft.val.title = "Changes to test.py"

\* the change types of chs, each once, in order of first occurrence
RECURSIVE FirstSeen(_)
FirstSeen(chs) ==
    IF chs = <<>> THEN <<>>
    ELSE LET before == FirstSeen(SubSeq(chs, 1, Len(chs) - 1))
             ct == chs[Len(chs)].change_type
         IN  IF Member(ct, before) THEN before ELSE Append(before, ct)

Occurrences(chs, ct) == Cardinality({i \in 1..Len(chs) : chs[i].change_type = ct})

Phrase(k, ct) ==
    IF k = 1 THEN "1 " \o ct \o " change"
    ELSE DecimalString(k) \o " " \o ct \o " changes"

RECURSIVE SumOf(_)
SumOf(ns) == IF ns = <<>> THEN 0 ELSE Head(ns) + SumOf(Tail(ns))

\* C10: for a non-empty sequence of changes the summary is "This update
\* includes " followed by one phrase per distinct change type in order of first
\* occurrence, joined by ", " and ended by "."; a type occurring once reads
\* "1 <type> change", one occurring k > 1 times "<k> <type> changes", and the
\* counts add up to the number of changes.
C10_Summary ==
    (Drafted /\ Len(changes) > 0) =>
        LET types == FirstSeen(changes)
            counts == [i \in 1..Len(types) |-> Occurrences(changes, types[i])]
            phrases == [i \in 1..Len(types) |-> Phrase(counts[i], types[i])]
        IN  /\ draft.val.summary = "This update includes " \o Join(phrases, ", ") \o "."
            /\ SumOf(counts) = Len(changes)

C10_Witness ==
    /\ Drafted
    /\ Len(changes) = 3
    /\ [i \in 1..3 |-> changes[i].change_type] = <<"added", "modified", "added">>
    /\ draft.val.summary = "This update includes 2 added changes, 1 modified change."


\* the members of canon that occur in seq, in canon's order
RECURSIVE Restrict(_, _)
Restrict(canon, S) ==
    IF canon = <<>> THEN <<>>
    ELSE (IF Head(canon) \in S THEN <<Head(canon)>> ELSE <<>>) \o Restrict(Tail(canon), S)

NonEmptyName(opt) == opt # None /\ Len(opt.val) > 0

\* C11: for a non-empty sequence of changes suggested_sections is "Overview",
\* then "New Features" iff some change is Added or Modified, then "API Changes"
\* iff some change has a non-empty function_name, then "Usage Examples", then
\* "Migration Guide"; no section name occurs twice.
C11_SuggestedSections ==
    (Drafted /\ Len(changes) > 0) =>
        LET secs == draft.val.suggested_sections
            names == {secs[i] : i \in 1..Len(secs)}
        IN  /\ {"Overview", "Usage Examples", "Migration Guide"} \subseteq names
            /\ "New Features" \in names <=>
                 \E i \in 1..Len(changes) : changes[i].change_type \in {"added", "modified"}
            /\ "API Changes" \in names <=>
                 \E i \in 1..Len(changes) : NonEmptyName(changes[i].function_name)
            /\ secs = Restrict(<<"Overview", "New Features", "API Changes",
                                 "Usage Examples", "Migration Guide">>, names)
            /\ \A i, j \in 1..Len(secs) : secs[i] = secs[j] => i = j

\* only Deleted and Renamed changes, none with a function name
C11_Witness ==
    /\ Drafted
    /\ Len(changes) >= 2
    /\ \E i \in 1..Len(changes) : changes[i].change_type = "deleted"
    /\ \E i \in 1..Len(changes) : changes[i].change_type = "renamed"
    /\ draft.val.suggested_sections = <<"Overview", "Usage Examples", "Migration Guide">>

\* C12: for a non-empty sequence of changes metadata has files_changed = the
\* number of distinct file_paths, total_changes = the length of the input and
\* change_types = the type of each change in input order, duplicates kept; so
\* len(change_types) = total_changes and 1 <= files_changed <= total_changes.
C12_Metadata ==
    (Drafted /\ Len(changes) > 0) =>
        LET md == draft.val.metadata
        IN  /\ DOMAIN md = {"files_changed", "total_changes", "change_types"}
            /\ md["files_changed"] =
                 Cardinality({changes[i].file_path : i \in 1..Len(changes)})
            /\ md["total_changes"] = Len(changes)
            /\ Len(md["change_types"]) = md["total_changes"]
            /\ \A i \in 1..Len(changes) : md["change_types"][i] = changes[i].change_type
            /\ 1 <= md["files_changed"] /\ md["files_changed"] <= md["total_changes"]

\* three changes to two files, one change type twice
C12_Witness ==
    /\ Drafted
    /\ Len(changes) = 3
    /\ draft.val.metadata["files_changed"] = 2
    /\ draft.val.metadata["change_types"] = <<"added", "deleted", "added">>

MetadataKeys == {"files_changed", "total_changes", "change_types"}

\* C13 as stated: every draft generate_draft returns, for any input, has a
\* metadata mapping with at least the keys files_changed, total_changes and
\* change_types.
C13_MetadataKeysAlways ==
    Drafted => MetadataKeys \subseteq DOMAIN draft.val.metadata

\* C13 amended: the draft of a non-empty sequence of changes has a metadata
\* mapping with the keys files_changed, total_changes and change_types; the
\* draft of the empty sequence has an empty metadata mapping.
C13_MetadataKeysNonEmpty ==
    Drafted =>
        IF Len(changes) > 0
        THEN MetadataKeys \subseteq DOMAIN draft.val.metadata
        ELSE DOMAIN draft.val.metadata = {}

C13_Witness ==
    /\ Drafted
    /\ Len(changes) = 1
    /\ MetadataKeys \subseteq DOMAIN draft.val.metadata

\* the symbols of chs, folded from the last change backwards
RECURSIVE ExpectedSymbols(_)
ExpectedSymbols(chs) ==
    IF chs = <<>> THEN <<>>
    ELSE LET c == chs[Len(chs)]
         IN  ExpectedSymbols(SubSeq(chs, 1, Len(chs) - 1))
             \o (IF NonEmptyName(c.function_name)
                 THEN <<c.file_path \o "::" \o c.function_name.val>> ELSE <<>>)
             \o (IF NonEmptyName(c.class_name)
                 THEN <<c.file_path \o "::" \o c.class_name.val>> ELSE <<>>)

\* C14: affected_symbols holds, per change in input order,
\* "<file_path>::<function_name>" if function_name is set and then
\* "<file_path>::<class_name>" if class_name is set; its length is between 0
\* and twice the number of changes, and it is non-empty whenever "API Changes"
\* is among the suggested sections.
C14_AffectedSymbols ==
    Drafted =>
        LET syms == draft.val.affected_symbols
            secs == draft.val.suggested_sections
        IN  /\ syms = ExpectedSymbols(changes)
            /\ Len(syms) <= 2 * Len(changes)
            /\ (\E i \in 1..Len(secs) : secs[i] = "API Changes") => Len(syms) > 0

\* a change with both names after a change with neither
C14_Witness ==
    /\ Drafted
    /\ Len(changes) = 2
    /\ changes[1].function_name = None /\ changes[1].class_name = None
    /\ draft.val.affected_symbols = <<"file1.py::f", "file1.py::C">>


----------------------------------------------------------------------------
(* write_doc *)

Returned == w_pc = "returned"

\* the positions of s whose character survives the filter
KeptPositions(s) ==
    {i \in 1..Len(s) : IsAlnum(Char(s, i)) \/ Char(s, i) \in {" ", "-", "_"}}

\* the name the title gives: the kept characters up to the last one that is
\* not a space, each space as an underscore, each letter in lower case
ExpectedName(title) ==
    LET solid == {i \in KeptPositions(title) : Char(title, i) # " "}
        last == IF solid = {} THEN 0 ELSE Max(solid)
    IN  Join([i \in 1..last |->
                 IF i \notin KeptPositions(title) THEN ""
                 ELSE IF Char(title, i) = " " THEN "_"
                 ELSE LowerChar(Char(title, i))], "")

\* the rows of a text: what stands before, between and after its newlines
RowsOf(s) ==
    LET breaks == {i \in 1..Len(s) : Char(s, i) = "\n"}
        nth(k) == IF k = 0 THEN 0
                  ELSE IF k > Cardinality(breaks) THEN Len(s) + 1
                  ELSE CHOOSE i \in breaks : Cardinality({j \in breaks : j < i}) = k - 1
    IN  [k \in 1..(Cardinality(breaks) + 1) |-> SubSeq(s, nth(k - 1) + 1, nth(k) - 1)]

\* C15: write_doc called without a filename writes to output_dir/<name>.md,
\* <name> being the title with only alphanumerics, spaces, hyphens and
\* underscores kept, trailing whitespace trimmed, spaces replaced by
\* underscores and letters lowercased ("Foo Bar" gives foo_bar.md); the file
\* starts with "# <title>" (the original title), a blank line and the body.
C15_DefaultFilename ==
    (Returned /\ filename = None) =>
        /\ w_result = Some(OutputDir \o "/" \o ExpectedName(doc.title) \o ".md")
        /\ doc.title = "Foo Bar" => w_result = Some("docs/foo_bar.md")
        /\ Exists(fs, w_result.val)
        /\ StartsWith(ReadFile(fs, w_result.val), "# " \o doc.title \o "\n\n" \o doc.content)
        /\ RowsOf(ReadFile(fs, w_result.val))[1] = "# " \o doc.title
        /\ RowsOf(ReadFile(fs, w_result.val))[2] = ""

\* a title with dropped characters, capitals, inner and trailing spaces
C15_Witness ==
    /\ Returned
    /\ filename = None
    /\ doc.title = "API: v2 (beta)! "
    /\ w_result = Some("docs/api_v2_beta.md")

\* s has sub as a substring
Contains(s, sub) ==
    \E i \in 1..(Len(s) - Len(sub) + 1) : SubSeq(s, i, i + Len(sub) - 1) = sub

\* the number of entries of seq that start with prefix
CountStarting(seq, prefix) ==
    Cardinality({i \in 1..Len(seq) : StartsWith(seq[i], prefix)})

\* C16: the file written by write_doc ends with a comment block
\* ("<!-- Metadata:" ... "-->") listing every metadata key exactly once, one
\* "key: value" per line, if and only if the metadata is non-empty; with
\* metadata None or an empty mapping the file contains no such block.
C16_MetadataBlock ==
    Returned =>
        LET text == ReadFile(fs, w_result.val)
            base == "# " \o doc.title \o "\n\n" \o doc.content
            tail == SubSeq(text, Len(base) + 1, Len(text))
            rows == RowsOf(tail)
            items == doc.metadata.val
        IN  /\ StartsWith(text, base)
            /\ IF doc.metadata # None /\ Len(doc.metadata.val) > 0
               THEN /\ Len(rows) = Len(items) + 5
                    /\ rows[1] = "" /\ rows[2] = ""
                    /\ rows[3] = "<!-- Metadata:"
                    /\ \A i \in 1..Len(items) :
                          /\ rows[3 + i] = items[i].key \o ": " \o PyStr(items[i].value)
                          /\ CountStarting(rows, items[i].key \o ": ") = 1
                    /\ rows[Len(items) + 4] = "-->"
                    /\ rows[Len(items) + 5] = ""
               ELSE /\ tail = ""
                    /\ ~Contains(text, "<!-- Metadata:")
                    /\ ~Contains(text, "-->")

\* a file with a three-key block, and a file written for an empty mapping
C16_Witness ==
    /\ Returned
    /\ doc.metadata # None
    /\ Len(doc.metadata.val) = 3
    /\ Contains(ReadFile(fs, w_result.val),
                "<!-- Metadata:\nfiles_changed: 2\ntotal_changes: 12\nchange_types: ['added', 'modified']\n-->\n")

\* a document with an empty mapping written without a block
EmptyMappingWritten ==
    /\ Returned
    /\ doc.metadata = Some(<<>>)
    /\ ~Contains(ReadFile(fs, w_result.val), "Metadata")


----------------------------------------------------------------------------
(* write_changelog *)

Reverse(seq) == [i \in 1..Len(seq) |-> seq[Len(seq) + 1 - i]]

NoCallInProgress == \A p \in Callers : cl_pc[p] = "idle"

\* C17: after sequential write_changelog calls with contents c1, ..., cn on a
\* file that did not exist before, the file content is cn, ..., c1 joined by
\* "\n\n": the newest first, every earlier content present and unmodified.
C17_ChangelogPrepend ==
    (cl_calls # <<>> /\ NoCallInProgress) =>
        /\ Exists(fs, ChangelogPath)
        /\ ReadFile(fs, ChangelogPath) = Join(Reverse(cl_calls), "\n\n")

\* the spec's own example, which the code does satisfy: "A" then "B"
ChangelogExample ==
    (cl_calls = <<"A", "B">> /\ NoCallInProgress) => ReadFile(fs, ChangelogPath) = "B\n\nA"

----------------------------------------------------------------------------
(* write_doc: what is left behind *)

\* C18: after write_doc(doc) returns path p, the GeneratedDoc's file_path
\* field holds p.
C18_FilePathAssigned == Returned => doc.file_path = w_result

\* C19: if write_doc fails at any step, the target file is afterwards either
\* as it was before the call or holds the complete intended content, never
\* only a prefix of it.
C19_NoHalfWrittenFile ==
    w_pc = "raised" =>
        \/ fs = fs0
        \/ Exists(fs, w_path) /\ ReadFile(fs, w_path) = FullContent(doc)


----------------------------------------------------------------------------
(* Runs without an API key, under SpecRun *)

\* AI enabled and no API key available for the chosen model
NoKeyRun == ai_enabled /\ ~Truthy(GetApiKey(config, model))

RunEnded == run_pc \in {"returned", "exit1"}

Warned == Member(MissingKeyWarning(model), echoed)

\* the one document of the run is on disk, whole, and nothing else is
OneDocumentWritten ==
    /\ writes = 1
    /\ fs = {[path |-> PathJoin(OutputDir, DefaultFilename(draft.val.title)),
              content |-> FullContent(GeneratedDoc(draft.val.title, BasicContent(draft.val),
                                                   Some(MetadataItems(draft.val.metadata))))]}

\* C20 as stated: in any run with AI enabled and no API key for the chosen
\* model no LLM call is ever issued; generate prints a warning, switches to
\* non-AI rendering and still writes exactly one document; setup exits with
\* status 1 without generating or writing any page.
C20_NoKeyNoCall ==
    NoKeyRun =>
        /\ llm_log = <<>>
        /\ (command = "generate" /\ RunEnded) =>
              /\ Warned
              /\ ~use_ai
              /\ OneDocumentWritten
        /\ (command = "setup" /\ RunEnded) =>
              /\ run_pc = "exit1"
              /\ pages = <<>>
              /\ fs = {}

\* the key has been looked up (main.py line 65 is passed)
KeyLookedUp == draft # None /\ run_pc # "drafted"

\* C20 amended: in any run with AI enabled and no API key for the chosen model
\* no LLM call is ever issued.  A generate run that finds a change prints the
\* warning, switches to non-AI rendering, calls write_doc at most once and,
\* ending normally, has written exactly one document; a generate run that
\* finds no change or fails before the draft never looks the key up, prints
\* no warning and writes nothing.  setup exits with status 1 without
\* generating or writing any page.
C20_NoKeyNoCallAmended ==
    NoKeyRun =>
        /\ llm_log = <<>>
        /\ llm_in_flight = {}
        /\ command = "generate" =>
              /\ writes <= 1
              /\ IF KeyLookedUp
                 THEN /\ Warned
                      /\ Member(FallbackNotice, echoed)
                      /\ ~use_ai
                      /\ run_pc = "returned" => OneDocumentWritten
                      /\ run_pc \notin {"enhancing", "generating"}
                      /\ doc # None => doc.content = BasicContent(draft.val)
                 ELSE /\ ~Warned
                      /\ writes = 0
                      /\ fs = {}
              /\ (RunEnded /\ draft = None) => (changes = <<>> /\ writes = 0)
        /\ command = "setup" =>
              /\ run_pc \in {"start", "exit1"}
              /\ pages = <<>>
              /\ fs = {}
              /\ writes = 0

\* a generate run without a key that has warned and written its document
C20_Witness ==
    /\ NoKeyRun
    /\ command = "generate"
    /\ run_pc = "returned"
    /\ Warned
    /\ OneDocumentWritten

\* a setup run without a key that has ended
SetupEndedWithoutKey ==
    /\ NoKeyRun
    /\ command = "setup"
    /\ run_pc = "exit1"
    /\ api_key = Some("")


----------------------------------------------------------------------------
(* LLM requests, under SpecRun *)

RequestFailed == Member("Error: request failed", echoed)

\* C21: in the generate command a failure of an LLM call during enhancement
\* is recovered by falling back to non-AI rendering, so a documentation file
\* is still written; the failed call is not retried.
C21_FailureFallsBack ==
    (command = "generate" /\ RequestFailed /\ RunEnded) =>
        /\ run_pc = "returned"
        /\ writes = 1
        /\ \E f \in fs : f.path = PathJoin(OutputDir, DefaultFilename(draft.val.title))
        /\ Len(llm_log) <= 2

\* the part of C21 the code does keep: a failed request is never issued again
NoRetry ==
    \A i, j \in 1..Len(llm_log) : llm_log[i] = llm_log[j] => i = j


\* the place of a request in the order of the two commands
Rank(r) ==
    CASE r.kind = "analysis" -> 1
      [] r.kind = "content" -> 2
      [] r.kind = "exploration_plan" -> 1
      [] r.kind = "project_insights" -> 2
      [] r.kind = "home" -> 3
      [] r.kind = "installation" -> 4
      [] r.kind = "quickstart" -> 5
      [] r.kind = "architecture" -> 6
      [] r.kind = "module_api" -> 7
      [] r.kind = "additional" -> 8

GenerateKinds == {"analysis", "content"}

\* C22: at every point of a run at most one LLM call is in flight: in
\* enhance_draft the content request is issued only after the analysis request
\* has returned, and in generate_comprehensive_wiki the exploration plan, the
\* project insights and then each page (home, installation, quickstart,
\* architecture, module API pages, additional pages) are requested strictly
\* one after another in that order.
C22_OneRequestAtATime ==
    /\ Cardinality(llm_in_flight) <= 1
    /\ llm_in_flight # {} => llm_in_flight = {llm_log[Len(llm_log)]}
    /\ \A i \in 1..Len(llm_log) :
          /\ (llm_log[i].kind \in GenerateKinds) <=> (command = "generate")
          /\ Rank(llm_log[i]) <= 6 => Rank(llm_log[i]) = i
          /\ \A j \in 1..Len(llm_log) : i < j => Rank(llm_log[i]) <= Rank(llm_log[j])
    /\ \A r \in llm_in_flight : r.kind = "content" => llm_log[1].kind = "analysis"

\* an additional page being requested after a module page, all before returned
C22_Witness ==
    /\ command = "setup"
    /\ Len(llm_log) = 8
    /\ llm_log[7].kind = "module_api"
    /\ llm_in_flight = {Request("additional", "User Guide")}
    /\ Len(pages) = 5

\* the content request in flight after the analysis has returned
ContentAfterAnalysis ==
    /\ command = "generate"
    /\ llm_log = <<Request("analysis", ""), Request("content", "")>>
    /\ llm_in_flight = {Request("content", "")}


----------------------------------------------------------------------------
(* Interleaved write_changelog calls, under SpecChangelogRace *)

\* what a call with content c combines when it reads the existing changelog
OnExisting(c) == c \o "\n\n" \o ExistingChangelog

\* two calls were made and both read the existing file before either wrote
BothReadExisting ==
    /\ Len(cl_calls) = 2
    /\ \E p, q \in Callers :
          /\ p # q
          /\ cl_content[p] = OnExisting(cl_calls[1])
          /\ cl_content[q] = OnExisting(cl_calls[2])

\* C23: write_changelog is a read-then-overwrite with no locking: when two
\* calls on the same existing file interleave (both read before either
\* writes), the final file is the combined text of one call only, so the new
\* content of the other call is lost.
C23_LostUpdate ==
    (NoCallInProgress /\ cl_calls # <<>>) =>
        /\ \E p \in Callers : ReadFile(fs, ChangelogPath) = cl_content[p]
        /\ BothReadExisting =>
              /\ ReadFile(fs, ChangelogPath)
                    \in {OnExisting(cl_calls[1]), OnExisting(cl_calls[2])}
              /\ ReadFile(fs, ChangelogPath)
                    \notin {cl_calls[2] \o "\n\n" \o OnExisting(cl_calls[1]),
                            cl_calls[1] \o "\n\n" \o OnExisting(cl_calls[2])}

\* both calls have returned and the file holds "B" but not "A"
C23_Witness ==
    /\ NoCallInProgress
    /\ cl_calls = <<"A", "B">>
    /\ BothReadExisting
    /\ ReadFile(fs, ChangelogPath) = "B\n\n0.9"

\* both calls have read and neither has written: nothing excludes it
BothHaveRead == \A p \in Callers : cl_pc[p] = "combined"


----------------------------------------------------------------------------
(* load_config, under SpecLoadConfig *)

\* the field of DoctrConfig an environment variable feeds
EnvVarOf(k) ==
    CASE k = "openai_api_key" -> "OPENAI_API_KEY"
      [] k = "anthropic_api_key" -> "ANTHROPIC_API_KEY"

SetInFile(file, k) == file # None /\ k \in DOMAIN file.val

SetInEnvironment(k) ==
    /\ k \in {"openai_api_key", "anthropic_api_key"}
    /\ environ[EnvVarOf(k)] \notin {None, Some("")}

\* C24: load_config merges its three layers key by key, each later layer
\* overriding the one before: a key of the project file wins over the same key
\* of the global file, which wins over the value from the environment; a key
\* set in no layer takes the DoctrConfig default.
C24_LayeredConfig ==
    lc_pc = "returned" =>
        \A k \in ConfigKeys :
            config[k] = IF SetInFile(project_config, k) THEN project_config.val[k]
                        ELSE IF SetInFile(global_config, k) THEN global_config.val[k]
                        ELSE IF SetInEnvironment(k) THEN environ[EnvVarOf(k)]
                        ELSE ConfigDefault(k)

\* one key set in all three layers, one in the global file and the
\* environment, one in the environment only and one nowhere
C24_Witness ==
    /\ lc_pc = "returned"
    /\ SetInEnvironment("anthropic_api_key") /\ SetInEnvironment("openai_api_key")
    /\ SetInFile(global_config, "anthropic_api_key")
    /\ SetInFile(project_config, "anthropic_api_key")
    /\ DOMAIN global_config.val = {"anthropic_api_key", "default_model"}
    /\ DOMAIN project_config.val = {"anthropic_api_key"}
    /\ config["anthropic_api_key"] = Some("project-anthropic")
    /\ config["default_model"] = "gpt-4o"
    /\ config["openai_api_key"] = Some("env-key")
    /\ config["use_ai"] = TRUE


----------------------------------------------------------------------------
(* Line numbering of the per-file parser, under SpecParser *)

\* the third field of a hunk header up to its comma
NewFileField(line) == SplitOn(Split(line)[3], ",")[1]

\* "@@ -a,b +c,d @@": the third field is a plus sign and a decimal number
WellFormedHeader(line) ==
    /\ StartsWith(line, "@@")
    /\ Len(Split(line)) >= 4
    /\ LET f == NewFileField(line)
       IN  /\ Len(f) >= 2
           /\ Char(f, 1) = "+"
           /\ \A i \in 2..Len(f) : Char(f, i) \in Digits

\* c, the new-file start of a well-formed header
NewFileStart(line) ==
    DecimalValue(SubSeq(NewFileField(line), 2, Len(NewFileField(line))))

Scanning == parse_pc \in {"loop", "returned"} /\ lines # <<>>

\* the position of the last '@@' line before position j, 0 if there is none
LastHeaderBefore(j) ==
    LET hs == {h \in 1..(j - 1) : StartsWith(lines[h], "@@")}
    IN  IF hs = {} THEN 0 ELSE Max(hs)

\* the lines between header h and position j that do not start with '-'
CountedBetween(h, j) ==
    Cardinality({i \in (h + 1)..(j - 1) : ~StartsWith(lines[i], "-")})

\* the number the claim gives the line at position j
ClaimedNumber(j) ==
    NewFileStart(lines[LastHeaderBefore(j)]) + CountedBetween(LastHeaderBefore(j), j)

AfterWellFormedHeader(j) ==
    LastHeaderBefore(j) > 0 /\ WellFormedHeader(lines[LastHeaderBefore(j)])

\* the position of the k-th scanned line that satisfies Is
NthPosition(k, Is(_)) ==
    CHOOSE j \in 1..Len(lines) :
        Is(lines[j]) /\ Cardinality({i \in 1..(j - 1) : Is(lines[i])}) = k - 1

IsPlusLine(line) == StartsWith(line, "+") /\ ~StartsWith(line, "+++")
IsMinusLine(line) == StartsWith(line, "-") /\ ~StartsWith(line, "---")

\* C25: after a well-formed hunk header with new-file start c, each added line
\* is recorded with c plus the count of added and context lines (lines not
\* starting with '-') seen since that header; a removed line is recorded with
\* the current counter value and leaves the counter unchanged; every added or
\* context line increases the counter by 1; a new hunk header overwrites the
\* counter with its own start.
C25_LineCounter ==
    Scanning =>
        /\ \A k \in 1..Len(added_lines) :
              AfterWellFormedHeader(NthPosition(k, IsPlusLine)) =>
                  added_lines[k].ln = ClaimedNumber(NthPosition(k, IsPlusLine))
        /\ \A k \in 1..Len(removed_lines) :
              AfterWellFormedHeader(NthPosition(k, IsMinusLine)) =>
                  removed_lines[k].ln = ClaimedNumber(NthPosition(k, IsMinusLine))
        /\ AfterWellFormedHeader(idx) => line_num = ClaimedNumber(idx)

\* an added line after a context line after a header starting at 12
C25_Witness ==
    /\ parse_pc = "returned"
    /\ lines = <<"@@ -7 +12 @@ def f():", "", "+new">>
    /\ added_lines[1].ln = 13
    /\ line_num = 14

\* a removed line takes the counter and leaves it, a second header overwrites
RemovedThenHeader ==
    /\ parse_pc = "returned"
    /\ lines = <<"@@ -7 +12 @@ def f():", "-old", "@@ -1,2 +3,4 @@">>
    /\ removed_lines[1].ln = 12
    /\ line_num = 3


----------------------------------------------------------------------------
(* Contents of the per-file parser, under SpecParser *)

InHunk(j) == LastHeaderBefore(j) > 0

\* before the first hunk a line starting with '+' or '-' is a file header
FileHeadersOnly ==
    \A j \in 1..Len(lines) :
        (~InHunk(j) /\ ~StartsWith(lines[j], "@@")) =>
            \/ StartsWith(lines[j], "+++")
            \/ StartsWith(lines[j], "---")
            \/ (~StartsWith(lines[j], "+") /\ ~StartsWith(lines[j], "-"))

\* the bodies (the text after the first character) of the hunk-body lines
\* starting with sign, in the order met
HunkBodies(sign) ==
    LET at == {j \in 1..Len(lines) : InHunk(j) /\ StartsWith(lines[j], sign)}
        nth(k) == CHOOSE j \in at : Cardinality({i \in at : i < j}) = k - 1
    IN  [k \in 1..Cardinality(at) |-> SubSeq(lines[nth(k)], 2, Len(lines[nth(k)]))]

JoinedOrNone(bodies) == IF bodies = <<>> THEN None ELSE Some(Join(bodies, "\n"))

\* C26: new_content is the newline-join, in the order met, of the bodies of
\* every hunk-body line whose first character is '+', whatever its remaining
\* text is, and old_content likewise for '-'; only the '+++'/'---' file-header
\* lines are excluded, and each field is None exactly when there is no such
\* line.
C26_ContentsOfHunks ==
    (Parsed /\ FileHeadersOnly) =>
        /\ change.val.new_content = JoinedOrNone(HunkBodies("+"))
        /\ change.val.old_content = JoinedOrNone(HunkBodies("-"))

\* what the code does keep: the bodies of the lines it takes as added and
\* removed, file-header-like lines left out wherever they stand
ContentsOfRecordedLines ==
    Parsed =>
        /\ change.val.new_content = JoinedOrNone(Contents(added_lines))
        /\ change.val.old_content = JoinedOrNone(Contents(removed_lines))

----------------------------------------------------------------------------
(* The result of parse_diff, under SpecRun *)

\* parse_diff went through the whole name list and returned (line 32)
ParseDiffReturned ==
    /\ diffs # <<>>
    /\ file_i > Len(diffs)
    /\ run_pc \notin {"start", "list_names", "files"}
    /\ ~Member("Error parsing diff", echoed)

\* the i-th name is not blank and its detailed diff is not blank
Contributes(i) ==
    /\ ~IsBlank(diffs[i])
    /\ ~file_diffs[i].none
    /\ ~IsBlank(file_diffs[i].val)

\* the positions of the name list that contribute, in the order of the list
Contributors ==
    SelectSeq([i \in 1..Len(diffs) |-> i], LAMBDA i : Contributes(i))

\* C27: when no diff invocation fails, parse_diff returns exactly one
\* CodeChange for each non-blank name whose detailed diff is not blank, with
\* file_path equal to that name, in the order of the name list; blank names
\* and files with a blank diff contribute nothing, so the result is never
\* longer than the name list.
C27_OneChangePerFile ==
    ParseDiffReturned =>
        /\ Len(file_diffs) = Len(diffs)
        /\ Len(changes) = Len(Contributors)
        /\ \A k \in 1..Len(changes) : changes[k].file_path = diffs[Contributors[k]]
        /\ Len(changes) <= Len(diffs)

\* a returned parse_diff whose list had a file with an empty diff before a
\* file that contributed
C27_Witness ==
    /\ ParseDiffReturned
    /\ \E i, j \in 1..Len(diffs) :
         /\ i < j
         /\ ~IsBlank(diffs[i]) /\ ~Contributes(i)
         /\ Contributes(j)
    /\ Len(changes) = 1

----------------------------------------------------------------------------
(* The changes of the draft, under SpecRun *)

\* C28: generate_draft returns draft.changes equal to its input sequence,
\* same elements, same order, same length, and neither generate_draft nor a
\* later stage (the non-AI rendering, the LLM context preparation, the
\* writer) changes any field of any CodeChange: once the draft exists, the
\* draft and the change list stay as they are.
C28_ChangesKept ==
    [][/\ draft' # None =>
            /\ draft'.val.changes = changes'
            /\ changes' = pd_changes'
       /\ draft # None => (draft' = draft /\ changes' = changes)]_vars

\* a finished run that wrote its document and whose draft still holds the
\* same change twice
C28_Witness ==
    /\ run_pc = "returned"
    /\ writes = 1
    /\ draft # None
    /\ Len(draft.val.changes) = 2
    /\ draft.val.changes[1] = draft.val.changes[2]

----------------------------------------------------------------------------
(* A generate run without changes, under SpecRun *)

\* parse_diff of a generate run has returned the empty sequence
EmptyParse ==
    /\ command = "generate"
    /\ is_repo
    /\ run_pc \notin {"start", "list_names", "files"}
    /\ changes = <<>>

\* DocumentationWriter.__init__ makes the output directory (writer.py line
\* 12); the one writer of a generate run is constructed at main.py line 100,
\* the step before write_doc, both in CallWriteDoc
OutputDirCreated == writes > 0

\* nothing past line 55 has happened
QuietEnd ==
    /\ run_pc \in {"parsed", "returned"}
    /\ run_pc = "returned" => echoed[Len(echoed)] = "No changes detected."
    /\ draft = None
    /\ api_key = None /\ use_ai = ai_enabled
    /\ llm_queue = <<>> /\ llm_in_flight = {} /\ llm_log = <<>>
    /\ ~OutputDirCreated
    /\ w_pc = "idle"
    /\ fs = {}

\* C29: in a generate run where parse_diff returns an empty sequence, the run
\* ends normally right after reporting "No changes detected.": no draft, no
\* API-key check, no LLM call, no output directory, no file; conversely a run
\* that writes a document has a non-empty change list and calls write_doc
\* exactly once.
C29_NoChangesNoOutput ==
    [][/\ (EmptyParse /\ run_pc = "parsed") =>
            /\ run_pc' = "returned"
            /\ echoed' = Append(echoed, "No changes detected.")
       /\ (EmptyParse => QuietEnd)'
       /\ ((command = "generate" /\ fs # {}) => (changes # <<>> /\ writes = 1))']_vars

\* a run with AI asked for and a key at hand ended after parse_diff went
\* through two names and returned nothing
C29_Witness ==
    /\ EmptyParse
    /\ run_pc = "returned"
    /\ Len(diffs) = 2
    /\ file_i > Len(diffs)
    /\ ai_enabled /\ HasApiKey(config, model)

----------------------------------------------------------------------------
(* The provider of a model name, under SpecRun *)

\* the provider whose key get_api_key returns
KeyProvider(model_name) ==
    IF GetApiKey(DoctrConfig(Some("o"), Some("a")), model_name) = Some("o")
    THEN "openai" ELSE "anthropic"

ProviderOfEnvVar(name) == IF name = "OPENAI_API_KEY" THEN "openai" ELSE "anthropic"

ProviderOfClass(class) == IF class = "OpenAIModel" THEN "openai" ELSE "anthropic"

\* the provider the rule of the claim gives
ProviderByRule(model_name) ==
    IF StartsWith(model_name, "gpt") \/ StartsWith(model_name, "o1")
    THEN "openai" ELSE "anthropic"

\* the four places agree on the model of the run
ProvidersAgree ==
    /\ KeyProvider(model) = ProviderByRule(model)
    /\ ProviderOfEnvVar(GeneratorEnvVar(model)) = ProviderByRule(model)
    /\ ProviderOfClass(GeneratorModelClass(model)) = ProviderByRule(model)
    /\ ProviderOfClass(AnalyzerModelClass(model)) = ProviderByRule(model)
    /\ ProviderOfEnvVar(WarningEnvVar(model)) = ProviderByRule(model)

\* C30: every place that maps a model name to a provider agrees for every
\* model name: in a run that looked a key up and printed the missing-key
\* warning of generate, or that built the analyzer's agents in setup, the
\* key, the generator's variable and model class, the analyzer's model class
\* and the variable the warning names all belong to one provider, OpenAI for
\* names starting with "gpt" or "o1" and Anthropic for every other name.
C30_ProvidersAgree ==
    (Warned \/ (command = "setup" /\ run_pc = "generating")) => ProvidersAgree

\* what does agree everywhere: the key and the generator
KeyAndGeneratorAgree ==
    /\ KeyProvider(model) = ProviderByRule(model)
    /\ ProviderOfEnvVar(GeneratorEnvVar(model)) = ProviderByRule(model)
    /\ ProviderOfClass(GeneratorModelClass(model)) = ProviderByRule(model)

====
